---- MODULE Spec2Model ----
(***************************************************************************)
(* The vehicle parking backend: the reservation lifecycle of               *)
(* backend/user_routes.py (book_parking_spot, release_parking_spot, the    *)
(* user_required decorator), its cached reads (get_available_parking_lots, *)
(* get_user_reservations) over backend/cache_service.py, and the lot       *)
(* administration of backend/admin_routes.py (create_parking_lot,          *)
(* update_parking_lot, delete_parking_lot), over the documents of          *)
(* backend/models.py.                                                      *)
(*                                                                         *)
(* Every request handler runs in its own worker (Flask serves requests     *)
(* concurrently) and reaches the MongoDB store one query or one save at a  *)
(* time: a handler is a sequence of steps, one per store operation, and    *)
(* the steps of different workers interleave freely.                       *)
(*                                                                         *)
(* Units: timestamps are whole seconds, money is whole cents.              *)
(***************************************************************************)
EXTENDS Integers, Sequences, FiniteSets, Bags, TLC

(***************************************************************************)
(* Bounds of the model.                                                    *)
(***************************************************************************)
NumUsers == 2          \* registered accounts with role 'user'
NumWorkers == 2        \* requests that can be in flight at the same time
MaxRequests == 4       \* requests received in one behaviour
MaxTime == 4200        \* the clock stops advancing here (seconds)

LotSizes == <<2, 1>>   \* spots of the lots present at start-up, in creation order
Prices == {400, 500}   \* hourly prices (cents) a lot may have been created with
DefaultPrice == 500    \* init_database's first sample lot: 5.0 per hour
TickSteps == {600, 3000} \* amounts of time that pass between two store operations
MaxSeqRequests == 6     \* requests received in one behaviour when served one at a time
MaxOverlapRequests == 3 \* requests received in one behaviour while time passes in flight
MaxSpots == 3          \* the largest number_of_spots an update asks for
CreateSizes == {0 - 2, 0, 2} \* the number_of_spots a create request asks for
CreatePrices == {0 - 500, 0, DefaultPrice} \* the prices a create request asks for
MaxCacheTime == 500     \* the clock of the cached reads stops advancing here (seconds)
CacheTicks == {100, 200} \* times that pass between two bursts of cached reads
PageInputs == {1, 2}   \* the page numbers a list request asks for
PerPageInputs == {1, 10} \* the page sizes a list request asks for (10 is the default)
MaxStay == 9000        \* the longest a car stays parked (seconds): 2.5 hours
StayLengths == {4200, 4320, 4680} \* times a car stays parked between two requests

(***************************************************************************)
(* Program constants.                                                      *)
(***************************************************************************)
SecondsPerHour == 3600
LotsCacheTimeout == 300           \* seconds the list of lots is cached for
ReservationsCacheTimeout == 120   \* seconds a user's first page is cached for

None == 0 - 1          \* Python's None in a numeric field

Users == 1 .. NumUsers
Workers == 1 .. NumWorkers
NumLots == Len(LotSizes)
LotIds == 1 .. NumLots
MaxLots == NumLots + 1             \* lot ids in use once the admin has created a lot
GhostLot == MaxLots + 1            \* a lot id that references no lot
Admin == NumUsers + 1              \* the default admin account of init_database
UnknownAccount == NumUsers + 2     \* a token identity with no User document
Callers == {Admin} \cup Users \cup {UnknownAccount}
LotIdInputs == LotIds \cup {GhostLot, None}
VehicleInputs == {"", " ", " KA01 "}

VARIABLES
    users,          \* User documents: account id -> [role, last_login, last_booking]
    lots,           \* ParkingLot documents: lot id -> [price, number_of_spots]
    spots,          \* ParkingSpot documents: spot id -> [lot_id, spot_number, status]
    reservations,   \* Reservation documents in insertion order
    activities,     \* UserActivity documents: a bag of [user_id, activity_type, spot_id]
    now,            \* datetime.utcnow()
    pc,             \* worker -> the store operation its handler performs next
    loc,            \* worker -> the handler's request data and local variables
    requests,       \* the number of requests received so far
    limit,          \* the number of requests after which no more are received
    ids,            \* the document ids assigned so far: [lots, spots]
    simple_cache,   \* cache_service.simple_cache: key -> [value, expiry]
    cache,          \* cache_service.cache, the flask_caching object of the routes
    changes,        \* history: the number of completed changes of lot data
    export_jobs,    \* ExportJob documents in insertion order
    scheduler       \* SimpleScheduler: running, the clock, its threads' sleeps

vars == <<users, lots, spots, reservations, activities, now, pc, loc, requests,
          limit, ids, simple_cache, cache, changes, export_jobs, scheduler>>

\* What the booking and release steps before the response leave alone.
aux == <<limit, ids, simple_cache, cache, changes, export_jobs, scheduler>>

(***************************************************************************)
(* Pure helpers.                                                           *)
(***************************************************************************)

\* The field as it would be taken without stripping it.
StripNothing(v) == v

\* str.strip() on the vehicle numbers a request may carry.
Strip(v) == IF v \in {"", " "} THEN "" ELSE IF v = " KA01 " THEN "KA01" ELSE v

\* The least element of a non-empty set of integers.
Min(S) == CHOOSE x \in S : \A y \in S : x <= y

\* round(n / d) for n >= 0, d > 0: to the nearest integer, a tie to the even one.
RoundHalfEven(n, d) ==
    LET q == n \div d
        r == n % d
    IN  IF 2 * r < d THEN q
        ELSE IF 2 * r > d THEN q + 1
        ELSE IF q % 2 = 0 THEN q ELSE q + 1

\* The billed time as it would be without the minimum of one hour.
BilledSecondsNoFloor(parking_timestamp, leaving_timestamp) ==
    leaving_timestamp - parking_timestamp

\* The billed time as it would be with every started hour billed in full.
BilledSecondsWholeHours(parking_timestamp, leaving_timestamp) ==
    LET elapsed == leaving_timestamp - parking_timestamp
    IN  IF elapsed > SecondsPerHour
        THEN ((elapsed + SecondsPerHour - 1) \div SecondsPerHour) * SecondsPerHour
        ELSE SecondsPerHour

\* hours = max(1, elapsed / 3600), as a number of seconds.
BilledSeconds(parking_timestamp, leaving_timestamp) ==
    LET elapsed == leaving_timestamp - parking_timestamp
    IN  IF elapsed > SecondsPerHour THEN elapsed ELSE SecondsPerHour

\* Reservation.calculate_cost of reservation document r, in cents.
CalculateCost(r) ==
    IF r.leaving_timestamp = None THEN 0
    ELSE IF r.spot_id \in DOMAIN spots /\ spots[r.spot_id].lot_id \in DOMAIN lots
         THEN RoundHalfEven(
                  BilledSeconds(r.parking_timestamp, r.leaving_timestamp)
                      * lots[spots[r.spot_id].lot_id].price,
                  SecondsPerHour)
         ELSE 0

\* The query as it would be without its user_id filter.
OpenReservationsOfAnyUser(u) ==
    {i \in DOMAIN reservations : reservations[i].leaving_timestamp = None}

\* Reservation.objects(user_id=u, leaving_timestamp=None): the matching documents.
OpenReservationsOf(u) ==
    {i \in DOMAIN reservations :
        /\ reservations[i].user_id = u
        /\ reservations[i].leaving_timestamp = None}

\* The query as it would be without its lot_id filter.
AvailableSpotsAnywhere(l) ==
    {s \in DOMAIN spots : spots[s].status = "A"}

\* ParkingSpot.objects(lot_id=l, status='A'): the matching documents.
AvailableSpots(l) ==
    {s \in DOMAIN spots : spots[s].lot_id = l /\ spots[s].status = "A"}

\* ParkingSpot.objects(lot_id=l): the spots of lot l.
SpotsOfLot(l) == {s \in DOMAIN spots : spots[s].lot_id = l}

\* The count as it would be if it were taken from the open reservations.
OccupiedSpotsFromReservations(l) ==
    Cardinality({i \in DOMAIN reservations :
        /\ reservations[i].leaving_timestamp = None
        /\ reservations[i].spot_id \in SpotsOfLot(l)})

\* ParkingLot.to_dict, models.py 72: the count of the lot's spots with status 'O'.
OccupiedSpots(l) == Cardinality({s \in SpotsOfLot(l) : spots[s].status = "O"})

\* The query result as it would be taken from its end.
FirstFromTheEnd(S) == IF S = {} THEN None ELSE CHOOSE x \in S : \A y \in S : y <= x

\* QuerySet.first(): the first matching document in insertion order, or None.
First(S) == IF S = {} THEN None ELSE Min(S)

(***************************************************************************)
(* cache_service.py: SimpleCache 23-56 and the keys of CacheService        *)
(* 122-147.  A cache is a function from the keys it holds to               *)
(* [value, expiry], with expiry None for a key that _expiry does not hold;  *)
(* time.time() is the clock of the model.                                  *)
(***************************************************************************)
EmptyCache == [k \in {} |-> None]

\* A response without a body.
NoBody == [data |-> <<>>, as_of |-> None, version |-> None]

\* No key: the caller has not named one.
NoKey == <<"", None>>

get_parking_lots_cache_key == <<"parking_lots:all", None>>
get_parking_lot_cache_key(lot_id) == <<"parking_lot", lot_id>>
get_parking_spots_cache_key(lot_id) == <<"parking_spots:lot", lot_id>>
get_user_reservations_cache_key(user_id) == <<"user_reservations", user_id>>
get_dashboard_stats_cache_key(user_id) ==
    IF user_id # None THEN <<"dashboard_stats:user", user_id>>
    ELSE <<"dashboard_stats:admin", None>>

\* The lookup as it would be if entries never expired.
SimpleCacheGetNoExpiry(c, key, t) ==
    IF key \in DOMAIN c THEN <<c[key].value>> ELSE <<>>

\* SimpleCache.get 29-38: <<value>> for the value of a key that is present and
\* not expired, <<>> for None.
SimpleCacheGet(c, key, t) ==
    IF key \in DOMAIN c /\ ~(c[key].expiry # None /\ t > c[key].expiry)
    THEN <<c[key].value>> ELSE <<>>

\* SimpleCache.get 32-36: a get of an expired key deletes it.
SimpleCacheAfterGet(c, key, t) ==
    IF key \in DOMAIN c /\ c[key].expiry # None /\ t > c[key].expiry
    THEN [k \in DOMAIN c \ {key} |-> c[k]]
    ELSE c

\* SimpleCache.set 40-44: the value is stored; the expiry is written only for
\* a timeout that is neither 0 nor None, and is otherwise left as it was.
SimpleCacheSet(c, key, value, timeout, t) ==
    [k \in DOMAIN c \cup {key} |->
        IF k = key
        THEN [value |-> value,
              expiry |-> IF timeout # 0 /\ timeout # None THEN t + timeout
                         ELSE IF key \in DOMAIN c THEN c[key].expiry
                         ELSE None]
        ELSE c[k]]

\* SimpleCache.delete 46-51, for a set of keys.
SimpleCacheDelete(c, keys) == [k \in DOMAIN c \ keys |-> c[k]]

\* SimpleCache.clear 53-56.
SimpleCacheClear(c) == EmptyCache

\* CacheService.invalidate_parking_lot_cache 149-168 on the cache get_cache()
\* returns, which is simple_cache as long as init_app has not run.
InvalidateParkingLotCache(c, lot_id) ==
    SimpleCacheDelete(c,
        {get_parking_lots_cache_key, get_dashboard_stats_cache_key(None)}
        \cup (IF lot_id # None
              THEN {get_parking_lot_cache_key(lot_id),
                    get_parking_spots_cache_key(lot_id)}
              ELSE {}))

\* CacheService.invalidate_user_cache 170-179.
InvalidateUserCache(c, user_id) ==
    SimpleCacheDelete(c, {get_user_reservations_cache_key(user_id),
                          get_dashboard_stats_cache_key(user_id)})

(***************************************************************************)
(* The state after init_database and the registration of the users: the    *)
(* lots hold their spots, all Available, and nothing is reserved.          *)
(***************************************************************************)
RECURSIVE SpotBase(_)
SpotBase(l) == IF l = 1 THEN 0 ELSE SpotBase(l - 1) + LotSizes[l - 1]

TotalSpots == SpotBase(NumLots + 1)

LotOfInitialSpot(s) == CHOOSE l \in LotIds : SpotBase(l) < s /\ s <= SpotBase(l + 1)

IdleLoc ==
    [op |-> "none", user |-> None, lot |-> None, vehicle |-> "", spot |-> None,
     res |-> None, parking_timestamp |-> None, leaving_timestamp |-> None,
     cost |-> None, dirty |-> FALSE, result |-> "none",
     price |-> None, number_of_spots |-> None, read_price |-> None,
     read_number_of_spots |-> None, i |-> None, spots_to_remove |-> {},
     page |-> None, per_page |-> None, since |-> None, body |-> NoBody,
     vehicle_number |-> "", job |-> None, job_id |-> None,
     key |-> NoKey, value |-> "", timeout |-> None, got |-> NoKey,
     returned |-> <<>>]

\* SimpleScheduler.__init__, scheduler.py 270-273: not running, no thread.  The
\* clock is datetime.now() in seconds since the midnight that began the first
\* day of the month; wake is the time at which each thread's sleep ends and
\* runs the times at which each thread executed its job.
Threads == {"daily_reminder", "monthly_report", "cleanup"}

SimpleSchedulerInit ==
    [running |-> FALSE, started |-> None, clock |-> 0,
     wake |-> [t \in Threads |-> None], runs |-> [t \in Threads |-> {}]]

\* The store with lot l created at price_of[l].
InitStoreWith(price_of) ==
    /\ users = [a \in {Admin} \cup Users |->
                   [role |-> IF a = Admin THEN "admin" ELSE "user",
                    last_login |-> None, last_booking |-> None]]
    /\ lots = [l \in LotIds |->
                  [price |-> price_of[l], number_of_spots |-> LotSizes[l]]]
    /\ spots = [s \in 1 .. TotalSpots |->
                   [lot_id |-> LotOfInitialSpot(s),
                    spot_number |-> s - SpotBase(LotOfInitialSpot(s)),
                    status |-> "A"]]
    /\ reservations = <<>>
    /\ activities = EmptyBag
    /\ now = 0
    /\ pc = [w \in Workers |-> "idle"]
    /\ loc = [w \in Workers |-> IdleLoc]
    /\ requests = 0
    /\ ids = [lots |-> NumLots, spots |-> TotalSpots]
    /\ simple_cache = EmptyCache
    /\ changes = 0
    /\ export_jobs = <<>>
    /\ scheduler = SimpleSchedulerInit

\* app.py 46-51: create_app calls CacheService.init_cache, which cache_service.py
\* does not define; the AttributeError is logged and no flask_caching object is
\* ever bound to the app.
Unbound == [bound |-> FALSE, data |-> EmptyCache]

\* The store with every lot created at the same price.
InitStore(price) == InitStoreWith([l \in LotIds |-> price])

Init ==
    /\ InitStore(DefaultPrice)
    /\ limit = MaxRequests
    /\ cache = Unbound

(***************************************************************************)
(* Steps shared by the handlers.                                           *)
(***************************************************************************)

\* The handler of worker w returns result r.
Respond(w, r) ==
    /\ pc' = [pc EXCEPT ![w] = "done"]
    /\ loc' = [loc EXCEPT ![w].result = r]

\* The handler of worker w goes on to step p with its locals updated to l.
Goto(w, p, l) ==
    /\ pc' = [pc EXCEPT ![w] = p]
    /\ loc' = [loc EXCEPT ![w] = l]

\* A worker takes a request off the wire.
Receive(w) ==
    /\ pc[w] = "idle"
    /\ requests < limit
    /\ requests' = requests + 1

\* The check as it would be without the comparison of the role.
UserRequiredAnyRole(a) == a \in DOMAIN users

\* user_required: the account of the token must exist with role 'user' (403
\* otherwise); update_last_login saves the account before the handler runs.
UserRequired(a) == a \in DOMAIN users /\ users[a].role = "user"

UpdateLastLogin(a) == users' = [users EXCEPT ![a].last_login = now]

\* A request by an account that user_required turns away.
RejectRequest(w, a, op) ==
    /\ Receive(w)
    /\ ~UserRequired(a)
    /\ pc' = [pc EXCEPT ![w] = "done"]
    /\ loc' = [loc EXCEPT ![w] = [IdleLoc EXCEPT !.op = op, !.user = a, !.result = "Forbidden"]]
    /\ UNCHANGED <<users, lots, spots, reservations, activities, now>>
    /\ UNCHANGED aux

\* The worker's response has been sent; the worker takes the next request.
Finish(w) ==
    /\ pc[w] = "done"
    /\ pc' = [pc EXCEPT ![w] = "idle"]
    /\ loc' = [loc EXCEPT ![w] = IdleLoc]
    /\ UNCHANGED <<users, lots, spots, reservations, activities, now, requests>>
    /\ UNCHANGED aux

(***************************************************************************)
(* book_parking_spot, user_routes.py 78-163.                               *)
(***************************************************************************)

\* Lines 84-99 after user_required: the request's fields are validated (a
\* missing lot id or a blank vehicle number is answered 400).
StartBook(w, a, lot_id, vehicle) ==
    /\ Receive(w)
    /\ UserRequired(a)
    /\ UpdateLastLogin(a)
    /\ LET l == [IdleLoc EXCEPT !.op = "book", !.user = a, !.lot = lot_id,
                                !.vehicle_number = vehicle,
                                !.vehicle = Strip(vehicle)]
       IN  IF lot_id = None \/ Strip(vehicle) = ""
           THEN /\ pc' = [pc EXCEPT ![w] = "done"]
                /\ loc' = [loc EXCEPT ![w] = [l EXCEPT !.result = "InvalidInput"]]
           ELSE Goto(w, "b_check_active", l)
    /\ UNCHANGED <<lots, spots, reservations, activities, now>>
    /\ UNCHANGED aux

\* The check as it would be if it looked only at the targeted lot.
BookCheckActiveInLotOnly(w) ==
    /\ pc[w] = "b_check_active"
    /\ IF \E i \in OpenReservationsOf(loc[w].user) :
              spots[reservations[i].spot_id].lot_id = loc[w].lot
       THEN Respond(w, "AlreadyActive")
       ELSE Goto(w, "b_find_spot", loc[w])
    /\ UNCHANGED <<users, lots, spots, reservations, activities, now, requests>>
    /\ UNCHANGED aux

\* Lines 101-108: the query for the user's active reservation.
BookCheckActive(w) ==
    /\ pc[w] = "b_check_active"
    /\ IF First(OpenReservationsOf(loc[w].user)) # None
       THEN Respond(w, "AlreadyActive")
       ELSE Goto(w, "b_find_spot", loc[w])
    /\ UNCHANGED <<users, lots, spots, reservations, activities, now, requests>>
    /\ UNCHANGED aux

\* Lines 110-128: the query for the first available spot of the lot; the
\* Reservation object is built and the spot marked 'O' in memory.
BookFindSpot(w) ==
    /\ pc[w] = "b_find_spot"
    /\ LET available_spot == First(AvailableSpots(loc[w].lot))
       IN  IF available_spot = None
           THEN Respond(w, "LotFull")
           ELSE Goto(w, "b_save_reservation",
                     [loc[w] EXCEPT !.spot = available_spot,
                                    !.parking_timestamp = now,
                                    !.dirty = TRUE])
    /\ UNCHANGED <<users, lots, spots, reservations, activities, now, requests>>
    /\ UNCHANGED aux

\* Line 130: reservation.save() inserts the new document.
BookSaveReservation(w) ==
    /\ pc[w] = "b_save_reservation"
    /\ reservations' = Append(reservations,
           [spot_id |-> loc[w].spot, user_id |-> loc[w].user,
            vehicle_number |-> loc[w].vehicle,
            parking_timestamp |-> loc[w].parking_timestamp,
            leaving_timestamp |-> None, parking_cost |-> None])
    /\ Goto(w, "b_save_spot", [loc[w] EXCEPT !.res = Len(reservations) + 1])
    /\ UNCHANGED <<users, lots, spots, activities, now, requests>>
    /\ UNCHANGED aux

\* Document.save() of a document read from the store, with field changed to
\* value: an update of the document with that id that sets the changed field,
\* sent as an upsert, so that a document deleted since it was read comes back
\* holding nothing but the field written.
SaveSpotStatus(s, value) ==
    [k \in DOMAIN spots \cup {s} |->
        IF k # s THEN spots[k]
        ELSE IF s \in DOMAIN spots THEN [spots[s] EXCEPT !.status = value]
        ELSE [lot_id |-> None, spot_number |-> None, status |-> value]]

\* Line 131: available_spot.save() writes the changed status field.
BookSaveSpot(w) ==
    /\ pc[w] = "b_save_spot"
    /\ spots' = SaveSpotStatus(loc[w].spot, "O")
    /\ Goto(w, "b_post", [loc[w] EXCEPT !.dirty = FALSE])
    /\ UNCHANGED <<users, lots, reservations, activities, now, requests>>
    /\ UNCHANGED aux

\* Lines 133-159: last_booking, the booking_created activity, the invalidation
\* of the lot's and the user's cache entries, the response.
BookPost(w) ==
    /\ pc[w] = "b_post"
    /\ users' = [users EXCEPT ![loc[w].user].last_booking = now]
    /\ activities' = activities (+) SetToBag({
           [user_id |-> loc[w].user, activity_type |-> "booking_created",
            spot_id |-> loc[w].spot]})
    /\ simple_cache' = InvalidateUserCache(
           InvalidateParkingLotCache(simple_cache, loc[w].lot), loc[w].user)
    /\ changes' = changes + 1
    /\ Respond(w, "Created")
    /\ UNCHANGED <<lots, spots, reservations, now, requests, limit, scheduler, export_jobs, ids, cache>>

\* Lines 130-131 and 161-163: a save raises (the store is unavailable); the
\* handler answers 500 and what was saved before stays saved.
BookSaveFails(w) ==
    /\ pc[w] \in {"b_save_reservation", "b_save_spot"}
    /\ Respond(w, "InternalError")
    /\ UNCHANGED <<users, lots, spots, reservations, activities, now, requests>>
    /\ UNCHANGED aux

(***************************************************************************)
(* release_parking_spot, user_routes.py 165-226.                           *)
(***************************************************************************)

\* Lines 171-173 after user_required.
StartRelease(w, a) ==
    /\ Receive(w)
    /\ UserRequired(a)
    /\ UpdateLastLogin(a)
    /\ Goto(w, "r_find_active", [IdleLoc EXCEPT !.op = "release", !.user = a])
    /\ UNCHANGED <<lots, spots, reservations, activities, now>>
    /\ UNCHANGED aux

\* Lines 175-185: the query for the user's active reservation; the leaving
\* timestamp is set in memory.
ReleaseFindActive(w) ==
    /\ pc[w] = "r_find_active"
    /\ LET active_reservation == First(OpenReservationsOf(loc[w].user))
       IN  IF active_reservation = None
           THEN Respond(w, "NoActiveReservation")
           ELSE Goto(w, "r_calculate_cost",
                     [loc[w] EXCEPT !.res = active_reservation,
                                    !.spot = reservations[active_reservation].spot_id,
                                    !.leaving_timestamp = now])
    /\ UNCHANGED <<users, lots, spots, reservations, activities, now, requests>>
    /\ UNCHANGED aux

\* Line 186: calculate_cost reads the spot and its lot; a lot stored without
\* its price makes the product of models.py 149 raise (500).
ReleaseCalculateCost(w) ==
    /\ pc[w] = "r_calculate_cost"
    /\ LET s == loc[w].spot
       IN  IF /\ s \in DOMAIN spots
              /\ spots[s].lot_id \in DOMAIN lots
              /\ lots[spots[s].lot_id].price = None
           THEN Respond(w, "InternalError")
           ELSE Goto(w, "r_read_spot",
                     [loc[w] EXCEPT !.cost =
                         CalculateCost([reservations[loc[w].res] EXCEPT
                             !.leaving_timestamp = loc[w].leaving_timestamp])])
    /\ UNCHANGED <<users, lots, spots, reservations, activities, now, requests>>
    /\ UNCHANGED aux

\* Lines 189-191: the spot is read and marked 'A' in memory, its lot_id kept for
\* the invalidation; the status counts as changed only when the document read
\* did not already hold 'A'. A reservation
\* whose spot is gone makes the handler raise (parking_spot is None).
ReleaseReadSpot(w) ==
    /\ pc[w] = "r_read_spot"
    /\ IF loc[w].spot \in DOMAIN spots
       THEN Goto(w, "r_save_reservation",
                 [loc[w] EXCEPT !.dirty = (spots[loc[w].spot].status # "A"),
                                !.lot = spots[loc[w].spot].lot_id])
       ELSE Respond(w, "InternalError")
    /\ UNCHANGED <<users, lots, spots, reservations, activities, now, requests>>
    /\ UNCHANGED aux

\* Line 194: active_reservation.save() writes the two changed fields.
ReleaseSaveReservation(w) ==
    /\ pc[w] = "r_save_reservation"
    /\ reservations' = [reservations EXCEPT
           ![loc[w].res].leaving_timestamp = loc[w].leaving_timestamp,
           ![loc[w].res].parking_cost = loc[w].cost]
    /\ Goto(w, "r_save_spot", loc[w])
    /\ UNCHANGED <<users, lots, spots, activities, now, requests>>
    /\ UNCHANGED aux

\* The step as it would be if the spot were never written back.
ReleaseSaveSpotSkipped(w) ==
    /\ pc[w] = "r_save_spot"
    /\ Goto(w, "r_post", [loc[w] EXCEPT !.dirty = FALSE])
    /\ UNCHANGED <<users, lots, spots, reservations, activities, now, requests>>
    /\ UNCHANGED aux

\* Line 195: parking_spot.save() writes the status field if it changed.  The
\* save validates the document first: one read without its required lot_id
\* raises, and the handler answers 500 with the reservation already saved.
ReleaseSaveSpot(w) ==
    /\ pc[w] = "r_save_spot"
    /\ IF loc[w].lot = None
       THEN /\ spots' = spots
            /\ Respond(w, "InternalError")
       ELSE /\ spots' = IF loc[w].dirty
                        THEN SaveSpotStatus(loc[w].spot, "A")
                        ELSE spots
            /\ Goto(w, "r_post", [loc[w] EXCEPT !.dirty = FALSE])
    /\ UNCHANGED <<users, lots, reservations, activities, now, requests>>
    /\ UNCHANGED aux

\* Lines 197-222: the booking_completed activity, the invalidation of the
\* lot's and the user's cache entries, the response.
ReleasePost(w) ==
    /\ pc[w] = "r_post"
    /\ activities' = activities (+) SetToBag({
           [user_id |-> loc[w].user, activity_type |-> "booking_completed",
            spot_id |-> loc[w].spot]})
    /\ simple_cache' = InvalidateUserCache(
           InvalidateParkingLotCache(simple_cache, loc[w].lot), loc[w].user)
    /\ changes' = changes + 1
    /\ Respond(w, "Released")
    /\ UNCHANGED <<users, lots, spots, reservations, now, requests, limit, scheduler, export_jobs, ids, cache>>

\* Lines 194-195 and 224-226: a save raises; the handler answers 500.
ReleaseSaveFails(w) ==
    /\ pc[w] \in {"r_save_reservation", "r_save_spot"}
    /\ Respond(w, "InternalError")
    /\ UNCHANGED <<users, lots, spots, reservations, activities, now, requests>>
    /\ UNCHANGED aux

\* Lines 137-148 and 161-163: activity.save() raises after the reservation, the
\* spot and the user were saved; the handler answers 500 and the invalidation
\* of lines 150-152 is not reached.
BookActivityFails(w) ==
    /\ pc[w] = "b_post"
    /\ users' = [users EXCEPT ![loc[w].user].last_booking = now]
    /\ changes' = changes + 1
    /\ Respond(w, "InternalError")
    /\ UNCHANGED <<lots, spots, reservations, activities, now, requests>>
    /\ UNCHANGED <<limit, scheduler, export_jobs, ids, simple_cache, cache>>

\* Lines 197-210 and 224-226: activity.save() raises after the reservation and
\* the spot were saved; the handler answers 500 and the invalidation of lines
\* 212-214 is not reached.
ReleaseActivityFails(w) ==
    /\ pc[w] = "r_post"
    /\ changes' = changes + 1
    /\ Respond(w, "InternalError")
    /\ UNCHANGED <<users, lots, spots, reservations, activities, now, requests>>
    /\ UNCHANGED <<limit, scheduler, export_jobs, ids, simple_cache, cache>>

(***************************************************************************)
(* get_current_reservation, user_routes.py 281-305.                        *)
(***************************************************************************)

\* Lines 287-289 after user_required.
StartCurrent(w, a) ==
    /\ Receive(w)
    /\ UserRequired(a)
    /\ UpdateLastLogin(a)
    /\ Goto(w, "q_find_active", [IdleLoc EXCEPT !.op = "current", !.user = a])
    /\ UNCHANGED <<lots, spots, reservations, activities, now>>
    /\ UNCHANGED aux

\* Lines 291-301: the query for the user's active reservation, answered with
\* the reservation or with null.
CurrentFindActive(w) ==
    /\ pc[w] = "q_find_active"
    /\ pc' = [pc EXCEPT ![w] = "done"]
    /\ loc' = [loc EXCEPT ![w].res = First(OpenReservationsOf(loc[w].user)),
                          ![w].result = "Current"]
    /\ UNCHANGED <<users, lots, spots, reservations, activities, now, requests>>
    /\ UNCHANGED aux

(***************************************************************************)
(* The cached reads of user_routes.py: get_available_parking_lots 37-76     *)
(* under the cached_response decorator of cache_service.py 268-314, and    *)
(* get_user_reservations 228-279.                                          *)
(***************************************************************************)

\* The completed bookings and releases of user u: one activity is logged for each.
CompletedBy(u) ==
    BagCardinality([x \in {y \in BagToSet(activities) : y.user_id = u} |->
                       CopiesIn(x, activities)])

\* The bookings and releases of user u whose reservation is saved, the ones
\* still before their response included.
WrittenBy(u) ==
    CompletedBy(u)
    + Cardinality({w \in Workers :
          /\ loc[w].user = u
          /\ pc[w] \in {"b_save_spot", "b_post", "r_save_spot", "r_post"}})

\* The changes of lot data that are saved, the bookings and releases still
\* before their response included.
WrittenChanges == changes + Cardinality({w \in Workers : pc[w] \in {"b_post", "r_post"}})

\* Lines 58-65: the lots with an Available spot, each as ParkingLot.to_dict
\* shows it.
AvailableLots ==
    [l \in {k \in DOMAIN lots : AvailableSpots(k) # {}} |->
        [price |-> lots[l].price,
         number_of_spots |-> lots[l].number_of_spots,
         available_spots |-> Cardinality(AvailableSpots(l)),
         occupied_spots |-> OccupiedSpots(l)]]

\* The key of the decorator at line 39.
AvailableLotsResponseKey == <<"user:parking_lots:available", None>>

\* A response body with the clock and the number of saved changes at the time
\* it was computed (history fields, not part of the JSON).
BodyOf(data, version) == [data |-> data, as_of |-> now, version |-> version]

\* Lines 15-56 and cache_service.py 285-304: user_required, then the decorator
\* looks its key up and answers with the cached response if there is one;
\* otherwise the handler looks the list up and, if there is a non-empty one,
\* answers with it.  The decorator caches that answer (cache_service.py 302-303)
\* in the next step.
StartLots(w, a) ==
    /\ Receive(w)
    /\ UserRequired(a)
    /\ UpdateLastLogin(a)
    /\ LET l == [IdleLoc EXCEPT !.op = "lots", !.user = a, !.since = changes]
           cached_result == SimpleCacheGet(simple_cache, AvailableLotsResponseKey, now)
           after_result == SimpleCacheAfterGet(simple_cache, AvailableLotsResponseKey, now)
           cached_data == SimpleCacheGet(after_result, get_parking_lots_cache_key, now)
           after_data == SimpleCacheAfterGet(after_result, get_parking_lots_cache_key, now)
       IN  IF cached_result # <<>>
           THEN /\ pc' = [pc EXCEPT ![w] = "done"]
                /\ loc' = [loc EXCEPT ![w] = [l EXCEPT !.body = cached_result[1],
                                                        !.result = "Listed"]]
                /\ simple_cache' = after_result
           ELSE IF cached_data # <<>> /\ DOMAIN cached_data[1].data # {}
           THEN /\ Goto(w, "l_respond", [l EXCEPT !.body = cached_data[1]])
                /\ simple_cache' = after_data
           ELSE /\ Goto(w, "l_query", l)
                /\ simple_cache' = after_data
    /\ UNCHANGED <<lots, spots, reservations, activities, now>>
    /\ UNCHANGED <<limit, scheduler, export_jobs, ids, cache, changes>>

\* Lines 57-68: the lots and the counts of their spots are read and the list is
\* cached for 300 seconds.
LotsQuery(w) ==
    /\ pc[w] = "l_query"
    /\ LET body == BodyOf(AvailableLots, WrittenChanges)
       IN  /\ simple_cache' = SimpleCacheSet(simple_cache, get_parking_lots_cache_key,
                                             body, LotsCacheTimeout, now)
           /\ Goto(w, "l_respond", [loc[w] EXCEPT !.body = body])
    /\ UNCHANGED <<users, lots, spots, reservations, activities, now, requests>>
    /\ UNCHANGED <<limit, scheduler, export_jobs, ids, cache, changes>>

\* Lines 55 and 70-72 with cache_service.py 302-306: the handler returns and the
\* decorator caches the response for 300 seconds.
LotsRespond(w) ==
    /\ pc[w] = "l_respond"
    /\ simple_cache' = SimpleCacheSet(simple_cache, AvailableLotsResponseKey,
                                      loc[w].body, LotsCacheTimeout, now)
    /\ Respond(w, "Listed")
    /\ UNCHANGED <<users, lots, spots, reservations, activities, now, requests>>
    /\ UNCHANGED <<limit, scheduler, export_jobs, ids, cache, changes>>

\* The documents of Reservation.objects(user_id=u).
ReservationsOf(u) == {i \in DOMAIN reservations : reservations[i].user_id = u}

\* The page as it would be with skip = page * per_page.
ReservationsPageSkippingOneMore(u, page, per_page) ==
    LET mine == ReservationsOf(u)
        total == Cardinality(mine)
        skip == page * per_page
        rest == IF total > skip THEN total - skip ELSE 0
        length == IF rest < per_page THEN rest ELSE per_page
        nth(k) == CHOOSE i \in mine : Cardinality({j \in mine : j > i}) = k - 1
        total_pages == (total + per_page - 1) \div per_page
    IN  [reservations |-> [k \in 1 .. length |->
                              [id |-> nth(skip + k),
                               spot_id |-> reservations[nth(skip + k)].spot_id,
                               leaving_timestamp |->
                                   reservations[nth(skip + k)].leaving_timestamp,
                               parking_cost |-> reservations[nth(skip + k)].parking_cost]],
         page |-> page, pages |-> total_pages, per_page |-> per_page, total |-> total,
         has_next |-> page < total_pages, has_prev |-> page > 1]

\* Lines 248-268: the page of the user's reservations, newest first, with the
\* pagination fields.
ReservationsPage(u, page, per_page) ==
    LET mine == ReservationsOf(u)
        total == Cardinality(mine)
        skip == (page - 1) * per_page
        rest == IF total > skip THEN total - skip ELSE 0
        length == IF rest < per_page THEN rest ELSE per_page
        nth(k) == CHOOSE i \in mine : Cardinality({j \in mine : j > i}) = k - 1
        total_pages == (total + per_page - 1) \div per_page
    IN  [reservations |-> [k \in 1 .. length |->
                              [id |-> nth(skip + k),
                               spot_id |-> reservations[nth(skip + k)].spot_id,
                               leaving_timestamp |->
                                   reservations[nth(skip + k)].leaving_timestamp,
                               parking_cost |-> reservations[nth(skip + k)].parking_cost]],
         page |-> page, pages |-> total_pages, per_page |-> per_page, total |-> total,
         has_next |-> page < total_pages, has_prev |-> page > 1]

\* The routes' cache object (cache_service.py 20) is used without CacheService:
\* an operation on it raises when the object is bound to no app, and acts on a
\* store of its own, which is not simple_cache, when it is.

\* Lines 234-246 after user_required: for the first page the cache is looked up.
StartList(w, a, page, per_page) ==
    /\ Receive(w)
    /\ UserRequired(a)
    /\ UpdateLastLogin(a)
    /\ LET l == [IdleLoc EXCEPT !.op = "list", !.user = a, !.page = page,
                                !.per_page = per_page, !.since = CompletedBy(a)]
           cached_data == SimpleCacheGet(cache.data, get_user_reservations_cache_key(a), now)
       IN  IF page = 1 /\ ~cache.bound
           THEN /\ pc' = [pc EXCEPT ![w] = "done"]
                /\ loc' = [loc EXCEPT ![w] = [l EXCEPT !.result = "InternalError"]]
           ELSE IF page = 1 /\ cached_data # <<>>
           THEN /\ pc' = [pc EXCEPT ![w] = "done"]
                /\ loc' = [loc EXCEPT ![w] = [l EXCEPT !.body = cached_data[1],
                                                        !.result = "Listed"]]
           ELSE Goto(w, "g_query", l)
    /\ cache' = IF cache.bound
                THEN [cache EXCEPT !.data =
                         SimpleCacheAfterGet(cache.data,
                                             get_user_reservations_cache_key(a), now)]
                ELSE cache
    /\ UNCHANGED <<lots, spots, reservations, activities, now>>
    /\ UNCHANGED <<limit, scheduler, export_jobs, ids, simple_cache, changes>>

\* Lines 248-275: the page is read; the first page is cached for 120 seconds.
ListQuery(w) ==
    /\ pc[w] = "g_query"
    /\ LET body == BodyOf(ReservationsPage(loc[w].user, loc[w].page, loc[w].per_page),
                          WrittenBy(loc[w].user))
       IN  IF loc[w].page = 1 /\ ~cache.bound
           THEN /\ Respond(w, "InternalError")
                /\ cache' = cache
           ELSE /\ pc' = [pc EXCEPT ![w] = "done"]
                /\ loc' = [loc EXCEPT ![w].body = body, ![w].result = "Listed"]
                /\ cache' = IF loc[w].page = 1
                            THEN [cache EXCEPT !.data =
                                     SimpleCacheSet(cache.data,
                                         get_user_reservations_cache_key(loc[w].user),
                                         body, ReservationsCacheTimeout, now)]
                            ELSE cache
    /\ UNCHANGED <<users, lots, spots, reservations, activities, now, requests>>
    /\ UNCHANGED <<limit, scheduler, export_jobs, ids, simple_cache, changes>>

\* Time passes between two bursts of requests.
Elapse(d) ==
    /\ \A w \in Workers : pc[w] = "idle"
    /\ now + d <= MaxCacheTime
    /\ now' = now + d
    /\ UNCHANGED <<users, lots, spots, reservations, activities, pc, loc, requests>>
    /\ UNCHANGED aux

(***************************************************************************)
(* admin_routes.py: admin_required 11-28, create_parking_lot 42-97,        *)
(* update_parking_lot 99-177.  No handler of the module touches a cache.   *)
(***************************************************************************)

\* admin_required: the account of the token must exist with role 'admin'.
AdminRequired(a) == a \in DOMAIN users /\ users[a].role = "admin"

\* A request by an account that admin_required turns away (403).
RejectAdminRequest(w, a, op) ==
    /\ Receive(w)
    /\ ~AdminRequired(a)
    /\ pc' = [pc EXCEPT ![w] = "done"]
    /\ loc' = [loc EXCEPT ![w] = [IdleLoc EXCEPT !.op = op, !.user = a, !.result = "Forbidden"]]
    /\ UNCHANGED <<users, lots, spots, reservations, activities, now>>
    /\ UNCHANGED aux

\* The request as it would be taken without the validation of its fields.
StartCreateLotUnvalidated(w, a, number_of_spots, price) ==
    /\ Receive(w)
    /\ ids.lots + Cardinality({v \in Workers : pc[v] = "c_save_lot"}) < MaxLots
    /\ AdminRequired(a)
    /\ Goto(w, "c_save_lot",
            [IdleLoc EXCEPT !.op = "create_lot", !.user = a,
                            !.number_of_spots = number_of_spots, !.price = price])
    /\ UNCHANGED <<users, lots, spots, reservations, activities, now>>
    /\ UNCHANGED aux

\* create_parking_lot 47-69: the fields are validated (a missing or zero field,
\* a count or a price that is not positive: 400).
StartCreateLot(w, a, number_of_spots, price) ==
    /\ Receive(w)
    /\ ids.lots + Cardinality({v \in Workers : pc[v] = "c_save_lot"}) < MaxLots
    /\ AdminRequired(a)
    /\ LET l == [IdleLoc EXCEPT !.op = "create_lot", !.user = a,
                                !.number_of_spots = number_of_spots, !.price = price]
       IN  IF number_of_spots = None \/ price = None
              \/ number_of_spots <= 0 \/ price <= 0
           THEN /\ pc' = [pc EXCEPT ![w] = "done"]
                /\ loc' = [loc EXCEPT ![w] = [l EXCEPT !.result = "InvalidInput"]]
           ELSE Goto(w, "c_save_lot", l)
    /\ UNCHANGED <<users, lots, spots, reservations, activities, now>>
    /\ UNCHANGED aux

\* Lines 72-80: lot.save() inserts the lot document.
CreateSaveLot(w) ==
    /\ pc[w] = "c_save_lot"
    /\ LET lot_id == ids.lots + 1
       IN  /\ lots' = [l \in DOMAIN lots \cup {lot_id} |->
                          IF l = lot_id
                          THEN [price |-> loc[w].price,
                                number_of_spots |-> loc[w].number_of_spots]
                          ELSE lots[l]]
           /\ ids' = [ids EXCEPT !.lots = lot_id]
           /\ Goto(w, "c_save_spot", [loc[w] EXCEPT !.lot = lot_id, !.i = 1])
    /\ UNCHANGED <<users, spots, reservations, activities, now, requests>>
    /\ UNCHANGED <<limit, scheduler, export_jobs, simple_cache, cache, changes>>

\* The spots collection after the insertion of spot spot_number of lot lot_id.
InsertSpot(lot_id, spot_number) ==
    [s \in DOMAIN spots \cup {ids.spots + 1} |->
        IF s = ids.spots + 1
        THEN [lot_id |-> lot_id, spot_number |-> spot_number, status |-> "A"]
        ELSE spots[s]]

\* Lines 83-94: one spot.save() of the loop; after the last one the response.
CreateSaveSpot(w) ==
    /\ pc[w] = "c_save_spot"
    /\ spots' = InsertSpot(loc[w].lot, loc[w].i)
    /\ ids' = [ids EXCEPT !.spots = ids.spots + 1]
    /\ IF loc[w].i < loc[w].number_of_spots
       THEN /\ Goto(w, "c_save_spot", [loc[w] EXCEPT !.i = loc[w].i + 1])
            /\ changes' = changes
       ELSE /\ Respond(w, "Created")
            /\ changes' = changes + 1
    /\ UNCHANGED <<users, lots, reservations, activities, now, requests>>
    /\ UNCHANGED <<limit, scheduler, export_jobs, simple_cache, cache>>

\* update_parking_lot 104-137: the lot is read (404 if there is none), the
\* fields of the request are validated (no field at all, a price or a count
\* that is not positive: 400) and set on the lot in memory.
StartUpdateLot(w, a, lot_id, price, number_of_spots) ==
    /\ Receive(w)
    /\ AdminRequired(a)
    /\ LET l == [IdleLoc EXCEPT !.op = "update_lot", !.user = a, !.lot = lot_id,
                                !.price = price, !.number_of_spots = number_of_spots]
           answer(r) == /\ pc' = [pc EXCEPT ![w] = "done"]
                        /\ loc' = [loc EXCEPT ![w] = [l EXCEPT !.result = r]]
       IN  IF lot_id \notin DOMAIN lots THEN answer("NotFound")
           ELSE IF price = None /\ number_of_spots = None THEN answer("InvalidInput")
           ELSE IF price # None /\ price <= 0 THEN answer("InvalidInput")
           ELSE IF number_of_spots # None /\ number_of_spots <= 0
                THEN answer("InvalidInput")
           ELSE Goto(w, IF number_of_spots = None THEN "u_save_lot" ELSE "u_count",
                     [l EXCEPT !.read_price = lots[lot_id].price,
                               !.read_number_of_spots = lots[lot_id].number_of_spots])
    /\ UNCHANGED <<users, lots, spots, reservations, activities, now>>
    /\ UNCHANGED aux

\* Lines 139-154: the count of the lot's spots decides between removing spots,
\* adding spots and neither.
UpdateCountSpots(w) ==
    /\ pc[w] = "u_count"
    /\ LET current_spots == Cardinality(SpotsOfLot(loc[w].lot))
       IN  IF loc[w].number_of_spots < current_spots
           THEN Goto(w, "u_list", loc[w])
           ELSE IF loc[w].number_of_spots > current_spots
           THEN Goto(w, "u_add", [loc[w] EXCEPT !.i = current_spots + 1])
           ELSE Goto(w, "u_save_lot", loc[w])
    /\ UNCHANGED <<users, lots, spots, reservations, activities, now, requests>>
    /\ UNCHANGED aux

\* The slice as it would be taken from the front of the list: all_spots[:excess].
SpotsToRemoveFromTheFront(lot_id, new_spots) ==
    LET all_spots == SpotsOfLot(lot_id)
        excess == IF Cardinality(all_spots) > new_spots
                  THEN Cardinality(all_spots) - new_spots ELSE 0
    IN  {R \in SUBSET all_spots :
            /\ Cardinality(R) = excess
            /\ \A r \in R, k \in all_spots \ R :
                   spots[r].spot_number <= spots[k].spot_number}

\* all_spots[new_spots:] of the lot's spots ordered by spot_number: the sets the
\* slice can be, one for each order of the spots that share a spot_number.
SpotsToRemove(lot_id, new_spots) ==
    LET all_spots == SpotsOfLot(lot_id)
        excess == IF Cardinality(all_spots) > new_spots
                  THEN Cardinality(all_spots) - new_spots ELSE 0
    IN  {R \in SUBSET all_spots :
            /\ Cardinality(R) = excess
            /\ \A r \in R, k \in all_spots \ R :
                   spots[k].spot_number <= spots[r].spot_number}

\* The check as it would be if any occupied spot of the lot blocked the update.
UpdateListSpotsAnyOccupied(w) ==
    /\ pc[w] = "u_list"
    /\ \E R \in SpotsToRemove(loc[w].lot, loc[w].number_of_spots) :
           IF \E s \in SpotsOfLot(loc[w].lot) : spots[s].status = "O"
           THEN Respond(w, "HasOccupiedSpots")
           ELSE Goto(w, IF R = {} THEN "u_save_lot" ELSE "u_delete",
                     [loc[w] EXCEPT !.spots_to_remove = R])
    /\ UNCHANGED <<users, lots, spots, reservations, activities, now, requests>>
    /\ UNCHANGED aux

\* Lines 143-148: the lot's spots are listed; an occupied spot among those to
\* remove rejects the update (400) with nothing saved.
UpdateListSpots(w) ==
    /\ pc[w] = "u_list"
    /\ \E R \in SpotsToRemove(loc[w].lot, loc[w].number_of_spots) :
           IF \E s \in R : spots[s].status = "O"
           THEN Respond(w, "HasOccupiedSpots")
           ELSE Goto(w, IF R = {} THEN "u_save_lot" ELSE "u_delete",
                     [loc[w] EXCEPT !.spots_to_remove = R])
    /\ UNCHANGED <<users, lots, spots, reservations, activities, now, requests>>
    /\ UNCHANGED aux

\* Lines 151-152: one spot.delete() of the loop.
UpdateDeleteSpot(w) ==
    /\ pc[w] = "u_delete"
    /\ LET s == Min(loc[w].spots_to_remove)
           rest == loc[w].spots_to_remove \ {s}
       IN  /\ spots' = [k \in DOMAIN spots \ {s} |-> spots[k]]
           /\ Goto(w, IF rest = {} THEN "u_save_lot" ELSE "u_delete",
                    [loc[w] EXCEPT !.spots_to_remove = rest])
    /\ UNCHANGED <<users, lots, reservations, activities, now, requests>>
    /\ UNCHANGED aux

\* Lines 156-162: one spot.save() of the loop that adds spots.
UpdateAddSpot(w) ==
    /\ pc[w] = "u_add"
    /\ spots' = InsertSpot(loc[w].lot, loc[w].i)
    /\ ids' = [ids EXCEPT !.spots = ids.spots + 1]
    /\ Goto(w, IF loc[w].i < loc[w].number_of_spots THEN "u_add" ELSE "u_save_lot",
            [loc[w] EXCEPT !.i = loc[w].i + 1])
    /\ UNCHANGED <<users, lots, reservations, activities, now, requests>>
    /\ UNCHANGED <<limit, scheduler, export_jobs, simple_cache, cache, changes>>

\* Lines 164-174: lot.save() writes the fields whose value differs from the one
\* read (an update of the document with that id, sent as an upsert: a lot
\* deleted since it was read comes back holding the changed fields only), then
\* the response.
UpdateSaveLot(w) ==
    /\ pc[w] = "u_save_lot"
    /\ LET l == loc[w].lot
           price_changed == loc[w].price # None /\ loc[w].price # loc[w].read_price
           number_changed == /\ loc[w].number_of_spots # None
                             /\ loc[w].number_of_spots # loc[w].read_number_of_spots
           stored == IF l \in DOMAIN lots THEN lots[l]
                     ELSE [price |-> None, number_of_spots |-> None]
           saved == [price |-> IF price_changed THEN loc[w].price ELSE stored.price,
                     number_of_spots |-> IF number_changed THEN loc[w].number_of_spots
                                         ELSE stored.number_of_spots]
       IN  lots' = IF price_changed \/ number_changed
                   THEN [k \in DOMAIN lots \cup {l} |-> IF k = l THEN saved ELSE lots[k]]
                   ELSE lots
    /\ changes' = changes + 1
    /\ Respond(w, "Updated")
    /\ UNCHANGED <<users, spots, reservations, activities, now, requests>>
    /\ UNCHANGED <<limit, scheduler, export_jobs, ids, simple_cache, cache>>

(***************************************************************************)
(* admin_routes.py: delete_parking_lot 179-202.                            *)
(***************************************************************************)

\* Lines 184-186 after admin_required: the lot is read (404 if there is none).
StartDeleteLot(w, a, lot_id) ==
    /\ Receive(w)
    /\ AdminRequired(a)
    /\ LET l == [IdleLoc EXCEPT !.op = "delete_lot", !.user = a, !.lot = lot_id]
       IN  IF lot_id \notin DOMAIN lots
           THEN /\ pc' = [pc EXCEPT ![w] = "done"]
                /\ loc' = [loc EXCEPT ![w] = [l EXCEPT !.result = "NotFound"]]
           ELSE Goto(w, "d_count", l)
    /\ UNCHANGED <<users, lots, spots, reservations, activities, now>>
    /\ UNCHANGED aux

\* The check as it would be if it were left out.
DeleteCountOccupiedSkipped(w) ==
    /\ pc[w] = "d_count"
    /\ Goto(w, "d_delete_spots", loc[w])
    /\ UNCHANGED <<users, lots, spots, reservations, activities, now, requests>>
    /\ UNCHANGED aux

\* Lines 189-191: the count of the lot's Occupied spots; any rejects the
\* deletion (400) with nothing deleted.
DeleteCountOccupied(w) ==
    /\ pc[w] = "d_count"
    /\ IF OccupiedSpots(loc[w].lot) > 0
       THEN Respond(w, "HasOccupiedSpots")
       ELSE Goto(w, "d_delete_spots", loc[w])
    /\ UNCHANGED <<users, lots, spots, reservations, activities, now, requests>>
    /\ UNCHANGED aux

\* The deletion as it would be without its lot_id filter.
DeleteSpotsOfEveryLot(w) ==
    /\ pc[w] = "d_delete_spots"
    /\ spots' = [k \in {} |-> spots[k]]
    /\ Goto(w, "d_delete_lot", loc[w])
    /\ UNCHANGED <<users, lots, reservations, activities, now, requests>>
    /\ UNCHANGED aux

\* Line 194: ParkingSpot.objects(lot_id=lot_id).delete() removes the spots of
\* the lot in one command.
DeleteSpots(w) ==
    /\ pc[w] = "d_delete_spots"
    /\ spots' = [k \in DOMAIN spots \ SpotsOfLot(loc[w].lot) |-> spots[k]]
    /\ Goto(w, "d_delete_lot", loc[w])
    /\ UNCHANGED <<users, lots, reservations, activities, now, requests>>
    /\ UNCHANGED aux

\* Lines 197-199: lot.delete(), then the response.
DeleteLot(w) ==
    /\ pc[w] = "d_delete_lot"
    /\ lots' = [k \in DOMAIN lots \ {loc[w].lot} |-> lots[k]]
    /\ changes' = changes + 1
    /\ Respond(w, "Deleted")
    /\ UNCHANGED <<users, spots, reservations, activities, now, requests>>
    /\ UNCHANGED <<limit, scheduler, export_jobs, ids, simple_cache, cache>>

(***************************************************************************)
(* Time passes between two store operations.                               *)
(***************************************************************************)
Tick(d) ==
    /\ now + d <= MaxTime
    /\ now' = now + d
    /\ UNCHANGED <<users, lots, spots, reservations, activities, pc, loc, requests>>
    /\ UNCHANGED aux

\* A car stays parked for d seconds while no request is being served.
Park(d) ==
    /\ \A w \in Workers : pc[w] = "idle"
    /\ now + d <= MaxStay
    /\ now' = now + d
    /\ UNCHANGED <<users, lots, spots, reservations, activities, pc, loc, requests>>
    /\ UNCHANGED aux

(***************************************************************************)
(* The specifications.                                                     *)
(***************************************************************************)
WorkerStep(w) ==
    \/ \E a \in Callers, op \in {"book", "release"} : RejectRequest(w, a, op)
    \/ \E a \in Callers, l \in LotIdInputs, v \in VehicleInputs : StartBook(w, a, l, v)
    \/ BookCheckActive(w)
    \/ BookFindSpot(w)
    \/ BookSaveReservation(w)
    \/ BookSaveSpot(w)
    \/ BookPost(w)
    \/ \E a \in Callers : StartRelease(w, a)
    \/ ReleaseFindActive(w)
    \/ ReleaseCalculateCost(w)
    \/ ReleaseReadSpot(w)
    \/ ReleaseSaveReservation(w)
    \/ ReleaseSaveSpot(w)
    \/ ReleasePost(w)
    \/ Finish(w)

\* Concurrent requests against an available store; the steps of one burst of
\* requests all read the same clock value.
Next == \E w \in Workers : WorkerStep(w)

Spec == Init /\ [][Next]_vars

\* Concurrent requests against a store whose saves may raise.
FaultyNext ==
    \/ \E w \in Workers : WorkerStep(w)
    \/ \E w \in Workers : BookSaveFails(w)
    \/ \E w \in Workers : ReleaseSaveFails(w)

SpecFaults == Init /\ [][FaultyNext]_vars

\* Billing: one user's requests served one at a time by one worker, the store
\* available, time passing between any two store operations, the lots created
\* at any of the prices.
BillingInit ==
    /\ \E p \in Prices : InitStore(p)
    /\ limit = MaxRequests
    /\ cache = Unbound

BillingWorker == Min(Workers)
BillingUser == Min(Users)

BillingNext ==
    \/ \E l \in LotIds : StartBook(BillingWorker, BillingUser, l, " KA01 ")
    \/ BookCheckActive(BillingWorker)
    \/ BookFindSpot(BillingWorker)
    \/ BookSaveReservation(BillingWorker)
    \/ BookSaveSpot(BillingWorker)
    \/ BookPost(BillingWorker)
    \/ StartRelease(BillingWorker, BillingUser)
    \/ ReleaseFindActive(BillingWorker)
    \/ ReleaseCalculateCost(BillingWorker)
    \/ ReleaseReadSpot(BillingWorker)
    \/ ReleaseSaveReservation(BillingWorker)
    \/ ReleaseSaveSpot(BillingWorker)
    \/ ReleasePost(BillingWorker)
    \/ Finish(BillingWorker)
    \/ \E d \in TickSteps : Tick(d)

SpecBilling == BillingInit /\ [][BillingNext]_vars

\* Long stays: the users' requests served one at a time by one worker, the
\* cars parked for more than an hour, each lot created at any of the prices.
LongStayInit ==
    /\ \E price_of \in [LotIds -> Prices] : InitStoreWith(price_of)
    /\ limit = MaxRequests
    /\ cache = Unbound

\* The requests of user a on lot l as worker w serves them.
Session(w, a, l) ==
    \/ StartBook(w, a, l, " KA01 ")
    \/ BookCheckActive(w)
    \/ BookFindSpot(w)
    \/ BookSaveReservation(w)
    \/ BookSaveSpot(w)
    \/ BookPost(w)
    \/ StartRelease(w, a)
    \/ ReleaseFindActive(w)
    \/ ReleaseCalculateCost(w)
    \/ ReleaseReadSpot(w)
    \/ ReleaseSaveReservation(w)
    \/ ReleaseSaveSpot(w)
    \/ ReleasePost(w)
    \/ Finish(w)

LongStayNext ==
    \/ \E a \in Users, l \in LotIds : Session(BillingWorker, a, l)
    \/ \E d \in StayLengths : Park(d)

SpecLongStay == LongStayInit /\ [][LongStayNext]_vars

\* Administration: the requests of the admin and of the users served one at a
\* time by one worker; the admin creates a lot and resizes or reprices a lot,
\* the users book and release in the first lot.
AdminInit ==
    /\ InitStore(DefaultPrice)
    /\ limit = MaxSeqRequests
    /\ cache = Unbound

\* The fields an update request may carry: [price, number_of_spots].
UpdateInputs ==
    {[price |-> None, number_of_spots |-> n] : n \in 0 .. MaxSpots}
    \cup {[price |-> p, number_of_spots |-> None] : p \in {None, 0} \cup Prices}
    \cup {[price |-> Min(Prices), number_of_spots |-> 1]}

\* The requests of the admin as worker w serves them.
AdminSession(w) ==
    \/ \E a \in {Admin, Min(Users)} : RejectAdminRequest(w, a, "update_lot")
    \/ \E n \in CreateSizes, p \in CreatePrices : StartCreateLot(w, Admin, n, p)
    \/ CreateSaveLot(w)
    \/ CreateSaveSpot(w)
    \/ \E l \in {Min(LotIds), MaxLots}, d \in UpdateInputs :
           StartUpdateLot(w, Admin, l, d.price, d.number_of_spots)
    \/ UpdateCountSpots(w)
    \/ UpdateListSpots(w)
    \/ UpdateDeleteSpot(w)
    \/ UpdateAddSpot(w)
    \/ UpdateSaveLot(w)

AdminNext ==
    \/ AdminSession(BillingWorker)
    \/ \E a \in Users : Session(BillingWorker, a, Min(LotIds))

SpecAdmin == AdminInit /\ [][AdminNext]_vars

\* Cached reads: one user books, releases and reads the list of lots and the
\* list of their reservations, the requests served by all the workers at the
\* same time, time passing between the bursts of requests.
CacheInit ==
    /\ InitStore(DefaultPrice)
    /\ limit = MaxRequests
    /\ \E bound \in BOOLEAN : cache = [bound |-> bound, data |-> EmptyCache]

CacheNext ==
    \/ \E w \in Workers :
           \/ Session(w, BillingUser, Min(LotIds))
           \/ StartLots(w, BillingUser)
           \/ LotsQuery(w)
           \/ LotsRespond(w)
           \/ \E page \in PageInputs, per_page \in PerPageInputs :
                  StartList(w, BillingUser, page, per_page)
           \/ ListQuery(w)
    \/ \E d \in CacheTicks : Elapse(d)

SpecCache == CacheInit /\ [][CacheNext]_vars

\* Concurrent resizes: update requests of the admin for the first lot, served
\* by all the workers at the same time.
ResizeNext ==
    \E w \in Workers :
        \/ \E n \in 1 .. MaxSpots : StartUpdateLot(w, Admin, Min(LotIds), None, n)
        \/ UpdateCountSpots(w)
        \/ UpdateListSpots(w)
        \/ UpdateDeleteSpot(w)
        \/ UpdateAddSpot(w)
        \/ UpdateSaveLot(w)
        \/ Finish(w)

SpecResize == Init /\ [][ResizeNext]_vars

\* Overlapping requests of one user: the user books and releases in the first
\* lot, the requests served by all the workers at the same time, time passing
\* between any two store operations.
OverlapInit ==
    /\ InitStore(DefaultPrice)
    /\ limit = MaxOverlapRequests
    /\ cache = Unbound

OverlapNext ==
    \/ \E w \in Workers : Session(w, BillingUser, Min(LotIds))
    \/ \E d \in TickSteps : Tick(d)

SpecOverlap == OverlapInit /\ [][OverlapNext]_vars

\* The activity log: the users' requests served one at a time by one worker,
\* the writes of the activity log failing or not; the users book and release
\* in the first lot and read their current reservation and the list of lots.
ActivityNext ==
    \/ \E a \in Users : Session(BillingWorker, a, Min(LotIds))
    \/ BookActivityFails(BillingWorker)
    \/ ReleaseActivityFails(BillingWorker)
    \/ \E a \in Callers : RejectRequest(BillingWorker, a, "current")
    \/ \E a \in Users : StartCurrent(BillingWorker, a)
    \/ CurrentFindActive(BillingWorker)
    \/ StartLots(BillingWorker, BillingUser)
    \/ LotsQuery(BillingWorker)
    \/ LotsRespond(BillingWorker)

SpecActivity == AdminInit /\ [][ActivityNext]_vars

\* Lists: one user books, releases and reads the pages of their reservations,
\* the requests served one at a time by one worker.
ListInit ==
    /\ InitStore(DefaultPrice)
    /\ limit = MaxSeqRequests
    /\ \E bound \in BOOLEAN : cache = [bound |-> bound, data |-> EmptyCache]

ListNext ==
    \/ Session(BillingWorker, BillingUser, Min(LotIds))
    \/ \E page \in PageInputs, per_page \in PerPageInputs :
           StartList(BillingWorker, BillingUser, page, per_page)
    \/ ListQuery(BillingWorker)

SpecList == ListInit /\ [][ListNext]_vars

\* Deletions: the users book and release in any lot while the admin deletes
\* lots, the requests served by all the workers at the same time.
DeleteNext ==
    \E w \in Workers :
        \/ \E a \in Users, l \in LotIds : Session(w, a, l)
        \/ \E a \in Callers : RejectAdminRequest(w, a, "delete_lot")
        \/ \E l \in LotIds \cup {GhostLot} : StartDeleteLot(w, Admin, l)
        \/ DeleteCountOccupied(w)
        \/ DeleteSpots(w)
        \/ DeleteLot(w)

SpecDelete == Init /\ [][DeleteNext]_vars

(***************************************************************************)
(* The claims.  What the claims say is stated over the documents of the    *)
(* store and the responses of the handlers, with the definitions below.    *)
(***************************************************************************)

\* Reservation i is open: its leaving_timestamp is null.
IsOpen(i) == reservations[i].leaving_timestamp = None

\* The open reservations that reference spot s, and those of user u.
OpenOnSpot(s) == {i \in DOMAIN reservations : IsOpen(i) /\ reservations[i].spot_id = s}
OpenOfUser(u) == {i \in DOMAIN reservations : IsOpen(i) /\ reservations[i].user_id = u}

\* Worker w has answered a request op with result r.
Answered(w, op, r) == pc[w] = "done" /\ loc[w].op = op /\ loc[w].result = r

\* No request is between its first and its last store operation.
Quiescent == \A w \in Workers : pc[w] \in {"idle", "done"}

\* The step being taken is the step of worker w at p.
StepAt(w, p) == pc[w] = p /\ pc'[w] # p

\* The step being taken ends the handler of worker w with result r.
EndsWith(w, r) == pc'[w] = "done" /\ loc'[w].result = r

\* C1 (per-spot exclusivity): under every interleaving of book requests by
\* different users, no two open reservations of different users reference the
\* same spot.
PerSpotExclusivity ==
    \A i, j \in DOMAIN reservations :
        (/\ i # j
         /\ IsOpen(i)
         /\ IsOpen(j)
         /\ reservations[i].user_id # reservations[j].user_id)
        => reservations[i].spot_id # reservations[j].spot_id

\* C2 (per-user exclusivity): at every instant every user has at most one open
\* reservation, two concurrent book requests of the same user included.
PerUserExclusivity ==
    \A u \in Users : Cardinality(OpenOfUser(u)) <= 1

\* C3: a spot is Occupied if and only if exactly one open reservation references
\* it, and Available if and only if none does; stated for the states in which no
\* request is in flight, where the claim's weakest reading already requires it.
SpotOccupiedIffOneOpenReservation ==
    Quiescent =>
        \A s \in DOMAIN spots :
            /\ spots[s].status = "O" <=> Cardinality(OpenOnSpot(s)) = 1
            /\ spots[s].status = "A" <=> OpenOnSpot(s) = {}

\* C4 (double release): of two release requests that run concurrently against
\* one open reservation at most one succeeds: no two workers have both answered
\* success for the release of the same reservation.
DoubleReleaseSucceedsOnce ==
    \A w1, w2 \in Workers :
        (/\ w1 # w2
         /\ Answered(w1, "release", "Released")
         /\ Answered(w2, "release", "Released"))
        => loc[w1].res # loc[w2].res

\* C5 (book is atomic): a book request that has failed has left nothing behind:
\* the store holds no reservation document created by it.
BookIsAtomic ==
    \A w \in Workers :
        (pc[w] = "done" /\ loc[w].op = "book" /\ loc[w].result # "Created")
        => loc[w].res \notin DOMAIN reservations

\* C6: a book request whose check finds the user with an open reservation fails
\* with AlreadyActive whatever lot it targets, and neither receiving the request
\* nor the check creates a reservation or changes a spot.
BookOfActiveUserFails ==
    [][\A w \in Workers :
        /\ (StepAt(w, "b_check_active") /\ OpenOfUser(loc[w].user) # {})
           => (/\ EndsWith(w, "AlreadyActive")
               /\ reservations' = reservations
               /\ spots' = spots)
        /\ (StepAt(w, "idle") /\ loc'[w].op = "book")
           => (reservations' = reservations /\ spots' = spots)
      ]_vars

\* A book request was refused with AlreadyActive although it targeted another
\* lot than the one the user is parked in, and that lot had a spot Available.
BookOfActiveUserFailsWitness ==
    \E w \in Workers :
        /\ Answered(w, "book", "AlreadyActive")
        /\ \E i \in OpenOfUser(loc[w].user) :
               spots[reservations[i].spot_id].lot_id # loc[w].lot
        /\ \E s \in DOMAIN spots : spots[s].lot_id = loc[w].lot /\ spots[s].status = "A"

\* C7: a book request that looks for a spot in an existing lot whose spots are
\* all Occupied fails with LotFull, creates no reservation and changes no spot.
BookOnFullLotFails ==
    [][\A w \in Workers :
        (/\ StepAt(w, "b_find_spot")
         /\ loc[w].lot \in DOMAIN lots
         /\ \A s \in DOMAIN spots : spots[s].lot_id = loc[w].lot => spots[s].status = "O")
        => (/\ EndsWith(w, "LotFull")
            /\ reservations' = reservations
            /\ spots' = spots)
      ]_vars

\* A book request was refused with LotFull on an existing lot with every spot
\* Occupied, by a user who has no open reservation.
BookOnFullLotFailsWitness ==
    \E w \in Workers :
        /\ Answered(w, "book", "LotFull")
        /\ loc[w].lot \in DOMAIN lots
        /\ \A s \in DOMAIN spots : spots[s].lot_id = loc[w].lot => spots[s].status = "O"
        /\ OpenOfUser(loc[w].user) = {}

\* C8: a book request for a lot id that references no lot, valid otherwise and
\* by a user with no open reservation, is answered NotFound (and not LotFull).
BookOnUnknownLotIsNotFound ==
    \A w \in Workers :
        (/\ pc[w] = "done"
         /\ loc[w].op = "book"
         /\ loc[w].lot # None
         /\ loc[w].lot \notin DOMAIN lots
         /\ loc[w].result \notin {"Forbidden", "InvalidInput", "AlreadyActive"})
        => loc[w].result = "NotFound"

\* C9: a release request whose lookup finds the user with no open reservation
\* fails with NoActiveReservation, and neither receiving the request nor the
\* lookup changes a reservation, a spot or the activity log.
ReleaseWithoutReservationFails ==
    [][\A w \in Workers :
        /\ (StepAt(w, "r_find_active") /\ OpenOfUser(loc[w].user) = {})
           => (/\ EndsWith(w, "NoActiveReservation")
               /\ UNCHANGED <<reservations, spots, activities>>)
        /\ (StepAt(w, "idle") /\ loc'[w].op = "release")
           => UNCHANGED <<reservations, spots, activities>>
      ]_vars

\* A release was refused with NoActiveReservation for a user who had booked and
\* released before, while another user was parked.
ReleaseWithoutReservationFailsWitness ==
    \E w \in Workers :
        /\ Answered(w, "release", "NoActiveReservation")
        /\ \E i \in DOMAIN reservations :
               reservations[i].user_id = loc[w].user /\ ~IsOpen(i)
        /\ \E i \in DOMAIN reservations : IsOpen(i)

\* C10 (billing floor): every reservation released less than one hour after it
\* was booked, zero elapsed time included, costs one hour at the lot's price.
BillingFloor ==
    \A i \in DOMAIN reservations :
        (/\ ~IsOpen(i)
         /\ reservations[i].leaving_timestamp - reservations[i].parking_timestamp
                < SecondsPerHour)
        => reservations[i].parking_cost = lots[spots[reservations[i].spot_id].lot_id].price

\* One reservation was released the instant it was booked and another after ten
\* minutes, in a lot at 5.00 per hour, and each costs 5.00.
BillingFloorWitness ==
    \E i, j \in DOMAIN reservations :
        /\ reservations[i].leaving_timestamp = reservations[i].parking_timestamp
        /\ reservations[j].leaving_timestamp - reservations[j].parking_timestamp = 600
        /\ lots[spots[reservations[j].spot_id].lot_id].price = 500
        /\ reservations[i].parking_cost = 500
        /\ reservations[j].parking_cost = 500

\* The time reservation i lasted and the hourly price of the lot of its spot.
Elapsed(i) == reservations[i].leaving_timestamp - reservations[i].parking_timestamp
PriceOf(i) == lots[spots[reservations[i].spot_id].lot_id].price

\* C11 (billing above the floor): every reservation released an hour or more
\* after it was booked costs its elapsed hours times the lot's price, to the
\* nearest cent, and less than the whole hours rounded up would cost.
BillingAboveFloor ==
    \A i \in DOMAIN reservations :
        (~IsOpen(i) /\ Elapsed(i) >= SecondsPerHour)
        => LET exact == Elapsed(i) * PriceOf(i)
               billed == reservations[i].parking_cost * SecondsPerHour
           IN  /\ 2 * (billed - exact) <= SecondsPerHour
               /\ 2 * (exact - billed) <= SecondsPerHour
               /\ Elapsed(i) % SecondsPerHour # 0
                  => reservations[i].parking_cost
                         < ((Elapsed(i) \div SecondsPerHour) + 1) * PriceOf(i)

\* 2.5 hours at 5.00 were billed 12.50 and 1.2 hours at 4.00 were billed 4.80.
BillingAboveFloorWitness ==
    \E i, j \in DOMAIN reservations :
        /\ ~IsOpen(i) /\ Elapsed(i) = 9000 /\ PriceOf(i) = 500
        /\ reservations[i].parking_cost = 1250
        /\ ~IsOpen(j) /\ Elapsed(j) = 4320 /\ PriceOf(j) = 400
        /\ reservations[j].parking_cost = 480

\* The spots of lot l that are Available, and the spot numbers of a set of spots.
AvailableIn(l) == {s \in DOMAIN spots : spots[s].lot_id = l /\ spots[s].status = "A"}
NumbersOf(S) == {spots[s].spot_number : s \in S}

ReleaseFreesSpotOnce ==
    [][\A w \in Workers :
        (loc[w].op = "release" /\ pc'[w] # pc[w] /\ pc[w] # "done")
        => IF pc[w] = "r_save_spot"
           THEN /\ spots[loc[w].spot].status = "O"
                /\ spots' = [spots EXCEPT ![loc[w].spot].status = "A"]
           ELSE spots' = spots
      ]_vars

\* After a release, a book by a different user in the same lot was given the
\* spot the release had freed.
ReleaseFreesSpotOnceWitness ==
    \E i, j \in DOMAIN reservations :
        /\ i < j
        /\ ~IsOpen(i) /\ IsOpen(j)
        /\ reservations[i].spot_id = reservations[j].spot_id
        /\ reservations[i].user_id # reservations[j].user_id
        /\ spots[reservations[j].spot_id].status = "O"
        /\ \E w \in Workers : Answered(w, "book", "Created") /\ loc[w].res = j

\* C14: under every interleaving of book and release requests, the count of
\* Occupied spots of every lot is between 0 and the lot's number of spots.
OccupiedCountWithinLot ==
    \A l \in DOMAIN lots :
        /\ 0 <= OccupiedSpots(l)
        /\ OccupiedSpots(l) <= lots[l].number_of_spots
        /\ lots[l].number_of_spots = Cardinality(SpotsOfLot(l))

\* A lot has every spot Occupied while two reservations are open on one of its
\* spots (two concurrent book requests were given the same spot).
OccupiedCountWithinLotWitness ==
    \E l \in DOMAIN lots :
        /\ OccupiedSpots(l) = lots[l].number_of_spots
        /\ \E s \in SpotsOfLot(l) : Cardinality(OpenOnSpot(s)) > 1

\* The spots of lot l beyond its first n spots in spot_number order.
BeyondTheFirst(l, n) ==
    {s \in SpotsOfLot(l) :
        Cardinality({k \in SpotsOfLot(l) : spots[k].spot_number < spots[s].spot_number}) >= n}

\* C18: an update whose listing finds an Occupied spot beyond the first
\* number_of_spots spots of the lot is rejected, and nothing the request did up
\* to the rejection changed a lot or a spot (its price field included); with no
\* Occupied spot beyond the kept range the update is not rejected, Occupied
\* spots within the range or not.
ShrinkRejectedIffOccupiedBeyond ==
    [][\A w \in Workers :
        /\ StepAt(w, "u_list")
           => IF \E s \in BeyondTheFirst(loc[w].lot, loc[w].number_of_spots) :
                     spots[s].status = "O"
              THEN /\ EndsWith(w, "HasOccupiedSpots")
                   /\ UNCHANGED <<lots, spots>>
              ELSE pc'[w] \in {"u_delete", "u_save_lot"}
        /\ ((StepAt(w, "idle") /\ loc'[w].op = "update_lot") \/ StepAt(w, "u_count"))
           => UNCHANGED <<lots, spots>>
      ]_vars

\* A request to shrink a lot and to change its price was rejected for an
\* Occupied spot beyond the new count; the lot keeps its price and its count,
\* and a spot within the kept range is Occupied too.
ShrinkRejectedIffOccupiedBeyondWitness ==
    \E w \in Workers :
        /\ Answered(w, "update_lot", "HasOccupiedSpots")
        /\ loc[w].price # None
        /\ lots[loc[w].lot].price # loc[w].price
        /\ lots[loc[w].lot].number_of_spots > loc[w].number_of_spots
        /\ Cardinality(SpotsOfLot(loc[w].lot)) = lots[loc[w].lot].number_of_spots
        /\ \E s \in SpotsOfLot(loc[w].lot) \ BeyondTheFirst(loc[w].lot, loc[w].number_of_spots) :
               spots[s].status = "O"

NumberOfSpotsIsSpotCount ==
    Quiescent =>
        \A l \in DOMAIN lots : lots[l].number_of_spots = Cardinality(SpotsOfLot(l))

\* C15: a first-page list request received after the user's book or release
\* completed is answered with a page computed after it (and not with an error
\* or with the page cached before it).
ListReflectsCompletedChanges ==
    \A w \in Workers :
        (/\ pc[w] = "done"
         /\ loc[w].op = "list"
         /\ loc[w].page = 1
         /\ loc[w].since > 0)
        => (loc[w].result = "Listed" /\ loc[w].body.version >= loc[w].since)

\* C16: a list of lots answered to a request received after a change of lot
\* data completed was computed after that change.
LotsReflectCompletedChanges ==
    \A w \in Workers :
        Answered(w, "lots", "Listed") => loc[w].body.version >= loc[w].since

DeleteOfOccupiedLotFails ==
    [][\A w \in Workers :
        /\ (StepAt(w, "d_count")
            /\ \E s \in SpotsOfLot(loc[w].lot) : spots[s].status = "O")
           => (EndsWith(w, "HasOccupiedSpots") /\ UNCHANGED <<lots, spots>>)
        /\ (StepAt(w, "idle") /\ loc'[w].op = "delete_lot")
           => UNCHANGED <<lots, spots>>
      ]_vars

\* The deletion of a lot with one spot Occupied and another Available was
\* rejected, and the lot still has all its spots.
DeleteOfOccupiedLotFailsWitness ==
    \E w \in Workers :
        /\ Answered(w, "delete_lot", "HasOccupiedSpots")
        /\ loc[w].lot \in DOMAIN lots
        /\ Cardinality(SpotsOfLot(loc[w].lot)) = lots[loc[w].lot].number_of_spots
        /\ \E s \in SpotsOfLot(loc[w].lot) : spots[s].status = "O"
        /\ \E s \in SpotsOfLot(loc[w].lot) : spots[s].status = "A"

\* C22: a delete request whose count finds no Occupied spot in the lot goes on
\* to remove exactly the spots of the lot and then exactly the lot, and answers
\* success; no step of it changes another spot, another lot or a reservation.
DeleteRemovesLotAndItsSpots ==
    [][\A w \in Workers :
        /\ (StepAt(w, "d_count") /\ OccupiedSpots(loc[w].lot) = 0)
           => (pc'[w] = "d_delete_spots" /\ UNCHANGED <<lots, spots, reservations>>)
        /\ StepAt(w, "d_delete_spots")
           => (/\ DOMAIN spots' = DOMAIN spots \ SpotsOfLot(loc[w].lot)
               /\ \A k \in DOMAIN spots' : spots'[k] = spots[k]
               /\ UNCHANGED <<lots, reservations>>)
        /\ StepAt(w, "d_delete_lot")
           => (/\ EndsWith(w, "Deleted")
               /\ DOMAIN lots' = DOMAIN lots \ {loc[w].lot}
               /\ \A k \in DOMAIN lots' : lots'[k] = lots[k]
               /\ UNCHANGED <<spots, reservations>>)
      ]_vars

\* A lot was deleted with all its spots while a closed reservation references
\* one of the removed spots; another lot keeps its spots, one of them Occupied
\* under an open reservation.
DeleteRemovesLotAndItsSpotsWitness ==
    \E w \in Workers :
        /\ Answered(w, "delete_lot", "Deleted")
        /\ loc[w].lot \notin DOMAIN lots
        /\ SpotsOfLot(loc[w].lot) = {}
        /\ \E i \in DOMAIN reservations :
               ~IsOpen(i) /\ reservations[i].spot_id \notin DOMAIN spots
        /\ \E l \in DOMAIN lots :
               /\ Cardinality(SpotsOfLot(l)) = lots[l].number_of_spots
               /\ \E i \in DOMAIN reservations :
                      /\ IsOpen(i)
                      /\ reservations[i].spot_id \in SpotsOfLot(l)
                      /\ spots[reservations[i].spot_id].status = "O"

\* C27: a release that computed the cost 0.0, the spot or its lot not being
\* resolved, answers success and leaves the reservation closed at that cost.
ReleaseOfUnresolvedSpotCloses ==
    \A w \in Workers :
        (/\ pc[w] = "done"
         /\ loc[w].op = "release"
         /\ loc[w].res # None
         /\ loc[w].cost = 0)
        => (/\ loc[w].result = "Released"
            /\ ~IsOpen(loc[w].res)
            /\ reservations[loc[w].res].parking_cost = 0)

\* The number of activity records of type t.
ActivitiesOfType(t) ==
    BagCardinality([x \in {y \in BagToSet(activities) : y.activity_type = t} |->
                       CopiesIn(x, activities)])

\* C23: whenever no request is being served, under every interleaving of
\* requests, the log holds one booking_created record for each reservation ever
\* created and one booking_completed record for each closed reservation.
OneActivityPerTransition ==
    Quiescent =>
        /\ ActivitiesOfType("booking_created") = Len(reservations)
        /\ ActivitiesOfType("booking_completed")
               = Cardinality({i \in DOMAIN reservations : ~IsOpen(i)})

\* C24: a book or a release whose reservation and spot are saved reports
\* success and has invalidated the cached list of lots, the write of its
\* activity record failed or not.
ActivityFailureDoesNotFail ==
    \A w \in Workers :
        /\ (/\ pc[w] = "done"
            /\ loc[w].op = "book"
            /\ loc[w].res \in DOMAIN reservations
            /\ ~loc[w].dirty)
           => (/\ loc[w].result = "Created"
               /\ get_parking_lots_cache_key \notin DOMAIN simple_cache)
        /\ (/\ pc[w] = "done"
            /\ loc[w].op = "release"
            /\ loc[w].res \in DOMAIN reservations
            /\ ~IsOpen(loc[w].res)
            /\ spots[loc[w].spot].status = "A")
           => (/\ loc[w].result = "Released"
               /\ get_parking_lots_cache_key \notin DOMAIN simple_cache)

\* C25: no step of a request for the current reservation changes a stored
\* document (the users' last_login included) or a cache entry.
CurrentReservationIsPureRead ==
    [][\A w \in Workers :
        (loc'[w].op = "current" /\ loc'[w] # loc[w])
        => UNCHANGED <<users, lots, spots, reservations, activities, simple_cache, cache>>
      ]_vars

\* C26: in every state the parking_cost of a reservation is null exactly when
\* its leaving_timestamp is null, and no step changes the leaving_timestamp or
\* the parking_cost of a reservation that is closed.
ClosedReservationIsFinal ==
    /\ [](\A i \in DOMAIN reservations :
             reservations[i].parking_cost = None
                 <=> reservations[i].leaving_timestamp = None)
    /\ [][\A i \in DOMAIN reservations :
             ~IsOpen(i)
             => /\ reservations'[i].leaving_timestamp = reservations[i].leaving_timestamp
                /\ reservations'[i].parking_cost = reservations[i].parking_cost
        ]_vars

\* Account a exists with role 'user'.
HasUserRole(a) == a \in DOMAIN users /\ users[a].role = "user"

\* C28: a book or release request by an account that does not exist with role
\* 'user' is rejected at once and creates no reservation and changes no spot;
\* every reservation belongs to an account with role 'user'; and no step
\* removes an account or changes its role.
OnlyUsersBookAndRelease ==
    /\ [](\A i \in DOMAIN reservations : HasUserRole(reservations[i].user_id))
    /\ [](\A w \in Workers :
             (loc[w].op \in {"book", "release"} /\ ~HasUserRole(loc[w].user))
             => Answered(w, loc[w].op, "Forbidden"))
    /\ [][/\ \A w \in Workers :
               (/\ StepAt(w, "idle")
                /\ loc'[w].op \in {"book", "release"}
                /\ ~HasUserRole(loc'[w].user))
               => (EndsWith(w, "Forbidden") /\ UNCHANGED <<reservations, spots>>)
          /\ \A a \in DOMAIN users :
               a \in DOMAIN users' /\ users'[a].role = users[a].role
        ]_vars

\* A book request of the admin and a release request of an unknown account were
\* both rejected while a lot had an Available spot and a user was parked.
OnlyUsersBookAndReleaseWitness ==
    \E w1, w2 \in Workers :
        /\ Answered(w1, "book", "Forbidden") /\ loc[w1].user = Admin
        /\ Answered(w2, "release", "Forbidden") /\ loc[w2].user = UnknownAccount
        /\ \E s \in DOMAIN spots : spots[s].status = "A"
        /\ \E i \in DOMAIN reservations : IsOpen(i)
        /\ Len(reservations) = 1

\* C29: a create request with a count or a price that is not positive is
\* answered InvalidInput and creates neither lot nor spot; the request that
\* succeeds has created one lot with its count and price and exactly that many
\* spots, all Available; and every stored lot has a positive price, whatever
\* create and update requests were served.
CreateLotValidated ==
    /\ [](\A l \in DOMAIN lots : lots[l].price > 0)
    /\ [][\A w \in Workers :
            /\ (StepAt(w, "idle") /\ loc'[w].op = "create_lot")
               => (/\ UNCHANGED <<lots, spots>>
                   /\ IF loc'[w].number_of_spots <= 0 \/ loc'[w].price <= 0
                      THEN EndsWith(w, "InvalidInput")
                      ELSE pc'[w] = "c_save_lot")
            /\ StepAt(w, "c_save_lot")
               => (Cardinality(DOMAIN lots' \ DOMAIN lots) = 1 /\ UNCHANGED spots)
            /\ (loc[w].op = "create_lot" /\ pc[w] # "done" /\ EndsWith(w, "Created"))
               => LET l == loc[w].lot
                      created == {s \in DOMAIN spots' : spots'[s].lot_id = l}
                  IN  /\ l \in DOMAIN lots'
                      /\ lots'[l] = [price |-> loc[w].price,
                                      number_of_spots |-> loc[w].number_of_spots]
                      /\ Cardinality(created) = loc[w].number_of_spots
                      /\ \A s \in created : spots'[s].status = "A"
        ]_vars

\* The second request served was a create of a lot of two spots at 5.00 and
\* the first had created nothing: the new lot holds P001 and P002, Available.
CreateLotValidatedWitness ==
    \E w \in Workers :
        /\ Answered(w, "create_lot", "Created")
        /\ requests = 2
        /\ reservations = <<>>
        /\ ids = [lots |-> NumLots + 1, spots |-> TotalSpots + 2]
        /\ lots[loc[w].lot] = [price |-> DefaultPrice, number_of_spots |-> 2]
        /\ NumbersOf(SpotsOfLot(loc[w].lot)) = {1, 2}
        /\ \A s \in SpotsOfLot(loc[w].lot) : spots[s].status = "A"

\* C30: a book request of a user whose vehicle number is empty or only white
\* space is answered InvalidInput by its first step, before any query, and
\* creates no reservation and changes no spot.
BlankVehicleIsInvalidInput ==
    [][\A w \in Workers :
        (/\ StepAt(w, "idle")
         /\ loc'[w].op = "book"
         /\ HasUserRole(loc'[w].user)
         /\ loc'[w].vehicle_number \in {"", " "})
        => (EndsWith(w, "InvalidInput") /\ UNCHANGED <<reservations, spots>>)
      ]_vars

\* A book with a vehicle number of one space was answered InvalidInput although
\* the user had no open reservation and the lot had an Available spot.
BlankVehicleIsInvalidInputWitness ==
    \E w \in Workers :
        /\ Answered(w, "book", "InvalidInput")
        /\ loc[w].vehicle_number = " "
        /\ loc[w].lot \in DOMAIN lots
        /\ AvailableIn(loc[w].lot) # {}
        /\ OpenOfUser(loc[w].user) = {}

\* C31: under every interleaving of book requests with deletions of the lot,
\* every open reservation references a stored spot of a stored lot, and that
\* spot is a whole document (none brought back by the booking's spot write).
OpenReservationHasSpot ==
    \A i \in DOMAIN reservations :
        IsOpen(i)
        => (/\ reservations[i].spot_id \in DOMAIN spots
            /\ spots[reservations[i].spot_id].lot_id \in DOMAIN lots
            /\ spots[reservations[i].spot_id].spot_number # None)

PagesFor(total, per_page) == CHOOSE n \in 0 .. total : n * per_page >= total /\
                                 \A m \in 0 .. total : m * per_page >= total => n <= m

MaxExportRequests == 4

\* ExportJob.job_id defaults to str(uuid.uuid4()): a value of its own kind,
\* never the document's id.  The job inserted as number n has id n.
UuidBase == 100
Uuid(n) == UuidBase + n

JobIdInputs == {Uuid(1), Uuid(2)}
ExportCallers == Users \cup {UnknownAccount}

\* The lookup as it would be with the key compared to job_id.
ExportJobLookupByJobId(key) ==
    {j \in DOMAIN export_jobs : export_jobs[j].job_id = key}

\* ExportJob.objects(id=key): the documents whose id is the key.  A key that
\* is no ObjectId raises ValidationError, and no document is read.
ExportJobLookup(key) ==
    {j \in DOMAIN export_jobs : j = key}

PendingJobsOf(a) ==
    {j \in DOMAIN export_jobs :
        export_jobs[j].user_id = a /\ export_jobs[j].status = "pending"}

ExportActivity(w, type) ==
    activities' = activities (+) SetToBag({
        [user_id |-> loc[w].user, activity_type |-> type, spot_id |-> None]})

\* request_csv_export, lines 24-30: jwt_required, then the account is read.
StartExport(w, a) ==
    /\ Receive(w)
    /\ IF a \in DOMAIN users
       THEN Goto(w, "x_find_pending", [IdleLoc EXCEPT !.op = "export", !.user = a])
       ELSE /\ pc' = [pc EXCEPT ![w] = "done"]
            /\ loc' = [loc EXCEPT ![w] = [IdleLoc EXCEPT !.op = "export", !.user = a,
                                                         !.result = "NotFound"]]
    /\ UNCHANGED <<users, lots, spots, reservations, activities, now>>
    /\ UNCHANGED aux

\* Lines 32-43: the user's first pending job, if any, rejects the request.
ExportFindPending(w) ==
    /\ pc[w] = "x_find_pending"
    /\ IF PendingJobsOf(loc[w].user) # {}
       THEN /\ pc' = [pc EXCEPT ![w] = "done"]
            /\ loc' = [loc EXCEPT ![w].job = First(PendingJobsOf(loc[w].user)),
                                  ![w].result = "AlreadyPending"]
       ELSE /\ pc' = [pc EXCEPT ![w] = "x_save_job"]
            /\ UNCHANGED loc
    /\ UNCHANGED <<users, lots, spots, reservations, activities, now, requests>>
    /\ UNCHANGED aux

\* Lines 45-47: ExportJob(user_id=user_id).save(), status 'pending' by default.
ExportSaveJob(w) ==
    /\ pc[w] = "x_save_job"
    /\ export_jobs' = Append(export_jobs,
           [user_id |-> loc[w].user, job_id |-> Uuid(Len(export_jobs) + 1),
            status |-> "pending", completed_at |-> None])
    /\ Goto(w, "x_run", [loc[w] EXCEPT !.job = Len(export_jobs) + 1,
                                       !.job_id = Uuid(Len(export_jobs) + 1)])
    /\ UNCHANGED <<users, lots, spots, reservations, activities, now, requests>>
    /\ UNCHANGED <<limit, scheduler, ids, simple_cache, cache, changes>>

\* export_user_csv_job(user_id, export_job.job_id), background_jobs.py
\* 265-290: the job is looked up by id with the job_id it was given.  The
\* lookup raises; a job that was found would be saved as 'processing' and the
\* read of export_type, which ExportJob does not have, would raise.  Either
\* way the handler of line 404 runs next.
ExportRunFindJob(w) ==
    /\ pc[w] = "x_run"
    /\ export_jobs' =
           [j \in DOMAIN export_jobs |->
               IF j \in ExportJobLookup(loc[w].job_id)
               THEN [export_jobs[j] EXCEPT !.status = "processing"]
               ELSE export_jobs[j]]
    /\ pc' = [pc EXCEPT ![w] = "x_run_handler"]
    /\ UNCHANGED <<users, lots, spots, reservations, activities, now, requests, loc>>
    /\ UNCHANGED <<limit, scheduler, ids, simple_cache, cache, changes>>

\* background_jobs.py 404-417: the job is looked up again and, when found,
\* saved as 'failed'; an exception of the lookup is swallowed.  The run returns
\* a dict and raises nothing, so lines 54-63 of the request never run.
ExportRunHandler(w) ==
    /\ pc[w] = "x_run_handler"
    /\ export_jobs' =
           [j \in DOMAIN export_jobs |->
               IF j \in ExportJobLookup(loc[w].job_id)
               THEN [export_jobs[j] EXCEPT !.status = "failed"]
               ELSE export_jobs[j]]
    /\ pc' = [pc EXCEPT ![w] = "x_activity"]
    /\ UNCHANGED <<users, lots, spots, reservations, activities, now, requests, loc>>
    /\ UNCHANGED <<limit, scheduler, ids, simple_cache, cache, changes>>

\* export_routes.py 65-80: the csv_export_requested activity and the answer
\* 200 with status 'completed'.
ExportLogActivity(w) ==
    /\ pc[w] = "x_activity"
    /\ ExportActivity(w, "csv_export_requested")
    /\ Respond(w, "Completed")
    /\ UNCHANGED <<users, lots, spots, reservations, now, requests>>
    /\ UNCHANGED aux

\* cancel_export_job, lines 227-229: jwt_required and the job_id of the path.
StartCancel(w, a, job_id) ==
    /\ Receive(w)
    /\ Goto(w, "c_find_job", [IdleLoc EXCEPT !.op = "cancel", !.user = a,
                                              !.job_id = job_id])
    /\ UNCHANGED <<users, lots, spots, reservations, activities, now>>
    /\ UNCHANGED aux

\* Lines 231-244: the job with this job_id and this user_id, 404 without one,
\* 400 unless its status is pending or processing.
CancelFindJob(w) ==
    /\ pc[w] = "c_find_job"
    /\ LET found == {j \in DOMAIN export_jobs :
                        /\ export_jobs[j].job_id = loc[w].job_id
                        /\ export_jobs[j].user_id = loc[w].user}
       IN  IF found = {}
           THEN Respond(w, "NotFound")
           ELSE IF export_jobs[First(found)].status \notin {"pending", "processing"}
           THEN /\ pc' = [pc EXCEPT ![w] = "done"]
                /\ loc' = [loc EXCEPT ![w].job = First(found),
                                      ![w].result = "CannotCancel"]
           ELSE Goto(w, "c_save", [loc[w] EXCEPT !.job = First(found)])
    /\ UNCHANGED <<users, lots, spots, reservations, activities, now, requests>>
    /\ UNCHANGED aux

\* Lines 246-251: status, completed_at and error_message are saved.
CancelSave(w) ==
    /\ pc[w] = "c_save"
    /\ export_jobs' = [export_jobs EXCEPT ![loc[w].job].status = "cancelled",
                                          ![loc[w].job].completed_at = now]
    /\ pc' = [pc EXCEPT ![w] = "c_activity"]
    /\ UNCHANGED <<users, lots, spots, reservations, activities, now, requests, loc>>
    /\ UNCHANGED <<limit, scheduler, ids, simple_cache, cache, changes>>

\* Lines 253-267: the csv_export_cancelled activity and the answer 200.
CancelLogActivity(w) ==
    /\ pc[w] = "c_activity"
    /\ ExportActivity(w, "csv_export_cancelled")
    /\ Respond(w, "Cancelled")
    /\ UNCHANGED <<users, lots, spots, reservations, now, requests>>
    /\ UNCHANGED aux

\* Exports: the users request and cancel exports, the requests served by
\* concurrent workers.
ExportInit ==
    /\ InitStore(DefaultPrice)
    /\ limit = MaxExportRequests
    /\ cache = Unbound

ExportNext ==
    \E w \in Workers :
        \/ \E a \in ExportCallers : StartExport(w, a)
        \/ ExportFindPending(w)
        \/ ExportSaveJob(w)
        \/ ExportRunFindJob(w)
        \/ ExportRunHandler(w)
        \/ ExportLogActivity(w)
        \/ \E a \in ExportCallers, job_id \in JobIdInputs : StartCancel(w, a, job_id)
        \/ CancelFindJob(w)
        \/ CancelSave(w)
        \/ CancelLogActivity(w)
        \/ Finish(w)

SpecExport == ExportInit /\ [][ExportNext]_vars

\* C34: when request_csv_export answers 200 with status 'completed', the
\* stored ExportJob of the request has status 'completed'.
ExportAnswerMatchesStoredJob ==
    \A w \in Workers :
        Answered(w, "export", "Completed")
        => export_jobs[loc[w].job].status = "completed"

\* C35: each user has at most one ExportJob with status 'pending'.
AtMostOnePendingJobPerUser ==
    \A a \in Users : Cardinality(PendingJobsOf(a)) <= 1

StatusRank(status) ==
    IF status = "pending" THEN 0 ELSE IF status = "processing" THEN 1 ELSE 2

\* C36: the status of an export job only moves forward, a job in completed,
\* failed or cancelled keeps its status in every step, an export run
\* finishing after a cancel included; a job becomes cancelled only by the save
\* of a cancel of its owner, and a cancel goes on to that save only for a job
\* of the caller that it read as pending or processing.
ExportStatusMovesForward ==
    /\ [][\A j \in DOMAIN export_jobs :
             export_jobs'[j].status # export_jobs[j].status
             => /\ export_jobs[j].status \in {"pending", "processing"}
                /\ StatusRank(export_jobs'[j].status) > StatusRank(export_jobs[j].status)
                /\ export_jobs'[j].status = "cancelled"
                   => \E w \in Workers :
                          /\ StepAt(w, "c_save")
                          /\ loc[w].job = j
                          /\ loc[w].user = export_jobs[j].user_id]_vars
    /\ [][\A w \in Workers :
             (StepAt(w, "c_find_job") /\ pc'[w] = "c_save")
             => /\ export_jobs[loc'[w].job].user_id = loc[w].user
                /\ export_jobs[loc'[w].job].job_id = loc[w].job_id
                /\ export_jobs[loc'[w].job].status \in {"pending", "processing"}]_vars
    /\ [](\A w \in Workers :
             Answered(w, "cancel", "Cancelled")
             => /\ export_jobs[loc[w].job].status = "cancelled"
                /\ export_jobs[loc[w].job].user_id = loc[w].user)

\* A cancel was answered with success for a job whose export run is still
\* under way: the run is about to finish on a cancelled job.
ExportStatusMovesForwardWitness ==
    \E w, v \in Workers :
        /\ pc[w] = "x_run_handler"
        /\ export_jobs[loc[w].job].status = "cancelled"
        /\ Answered(v, "cancel", "Cancelled")
        /\ loc[v].job = loc[w].job

(***************************************************************************)
(* SimpleScheduler, scheduler.py 267-373.                                  *)
(***************************************************************************)

MaxClock == 90000
StartTimes == {6900, 7190}         \* 01:55:00 and 01:59:50 of the first day
JobDurations == {0, 20}            \* the seconds a job takes to execute

SecondsPerMinute == 60
SecondsPerDay == 86400

\* config.py 66-68: DAILY_REMINDER_TIME, MONTHLY_REPORT_DAY and _TIME.
DailyReminderHour == 18
DailyReminderMinute == 0
MonthlyReportDay == 1
MonthlyReportHour == 9
MonthlyReportMinute == 0
CleanupHour == 2
CleanupMinute == 0

\* The fields of datetime.now().
DayOf(time) == 1 + time \div SecondsPerDay
HourOf(time) == (time \div SecondsPerHour) % 24
MinuteOf(time) == (time \div SecondsPerMinute) % 60

\* The condition under which a loop executes its job, lines 315, 339 and 360.
Scheduled(t, time) ==
    IF t = "daily_reminder"
    THEN HourOf(time) = DailyReminderHour /\ MinuteOf(time) = DailyReminderMinute
    ELSE IF t = "monthly_report"
    THEN /\ DayOf(time) = MonthlyReportDay
         /\ HourOf(time) = MonthlyReportHour
         /\ MinuteOf(time) = MonthlyReportMinute
    ELSE HourOf(time) = CleanupHour /\ MinuteOf(time) = CleanupMinute

\* The sleep that ends each iteration, lines 324, 348 and 369.
PollSeconds(t) == IF t = "daily_reminder" THEN 30 ELSE 300

\* The sleep after a job was executed, lines 322, 346 and 367.
SleepAfterJob == 60

\* start(), lines 280-300: running is set and the three threads begin.
SchedulerStart ==
    /\ ~scheduler.running
    /\ scheduler.started = None
    /\ \E t0 \in StartTimes :
           scheduler' = [scheduler EXCEPT !.running = TRUE, !.started = t0,
                                          !.clock = t0,
                                          !.wake = [t \in Threads |-> t0]]
    /\ UNCHANGED <<users, lots, spots, reservations, activities, now, pc, loc,
                   requests, limit, ids, simple_cache, cache, changes, export_jobs>>

\* shutdown(), lines 302-305: the loops end at their next test of running.
SchedulerShutdown ==
    /\ scheduler.running
    /\ scheduler' = [scheduler EXCEPT !.running = FALSE]
    /\ UNCHANGED <<users, lots, spots, reservations, activities, now, pc, loc,
                   requests, limit, ids, simple_cache, cache, changes, export_jobs>>

\* One iteration of the loop of thread t, begun when its sleep has ended: now
\* is read; in the scheduled minute the job is executed, taking d seconds, and
\* the thread sleeps 60 seconds; then the thread sleeps its polling interval.
LoopIteration(t) ==
    /\ scheduler.running
    /\ scheduler.wake[t] = scheduler.clock
    /\ IF Scheduled(t, scheduler.clock)
       THEN \E d \in JobDurations :
                scheduler' = [scheduler EXCEPT
                    !.runs[t] = @ \cup {scheduler.clock},
                    !.wake[t] = scheduler.clock + d + SleepAfterJob + PollSeconds(t)]
       ELSE scheduler' = [scheduler EXCEPT
                !.wake[t] = scheduler.clock + PollSeconds(t)]
    /\ UNCHANGED <<users, lots, spots, reservations, activities, now, pc, loc,
                   requests, limit, ids, simple_cache, cache, changes, export_jobs>>

DailyReminderLoop == LoopIteration("daily_reminder")

MonthlyReportLoop == LoopIteration("monthly_report")

CleanupLoop == LoopIteration("cleanup")

\* Time passes until the next sleep ends.
SchedulerTick ==
    /\ scheduler.running
    /\ \A t \in Threads : scheduler.wake[t] > scheduler.clock
    /\ \E t \in Threads :
           /\ \A u \in Threads : scheduler.wake[t] <= scheduler.wake[u]
           /\ scheduler.wake[t] <= MaxClock
           /\ scheduler' = [scheduler EXCEPT !.clock = scheduler.wake[t]]
    /\ UNCHANGED <<users, lots, spots, reservations, activities, now, pc, loc,
                   requests, limit, ids, simple_cache, cache, changes, export_jobs>>

SchedulerSpecInit ==
    /\ InitStore(DefaultPrice)
    /\ limit = 0
    /\ cache = Unbound

SchedulerNext ==
    \/ SchedulerStart
    \/ SchedulerShutdown
    \/ DailyReminderLoop
    \/ MonthlyReportLoop
    \/ CleanupLoop
    \/ SchedulerTick

SpecScheduler == SchedulerSpecInit /\ [][SchedulerNext]_vars

\* The minutes up to MaxClock in which thread t is scheduled to run its job.
Occurrences(t) ==
    {SecondsPerMinute * m : m \in {n \in 0 .. MaxClock \div SecondsPerMinute :
                                      Scheduled(t, SecondsPerMinute * n)}}

RunsIn(t, b) ==
    {r \in scheduler.runs[t] : b <= r /\ r < b + SecondsPerMinute}

\* C37: while the scheduler is running, every scheduled minute that began
\* after the start and that a thread has slept past has had the thread's job
\* executed exactly once.
ScheduledOccurrenceRunsOnce ==
    \A t \in Threads : \A b \in Occurrences(t) :
        (/\ scheduler.running
         /\ scheduler.started <= b
         /\ scheduler.wake[t] >= b + SecondsPerMinute)
        => Cardinality(RunsIn(t, b)) = 1

(***************************************************************************)
(* SimpleCache on its own: calls of get, set, delete and clear by one      *)
(* caller while time passes, cache_service.py 23-56.  The caller's locals  *)
(* keep the arguments of the most recent set since the last delete or      *)
(* clear, and the key and the return value of the most recent get.         *)
(***************************************************************************)

MaxSimpleCacheTime == 12
SimpleCacheTicks == {1, 3}
SimpleCacheTimeouts == {None, 0, 2, 5}
SimpleCacheKeys == {get_parking_lots_cache_key, get_user_reservations_cache_key(1)}
SimpleCacheValues == {"a", "b"}

SimpleCacheSetCall(key, value, timeout) ==
    /\ simple_cache' = SimpleCacheSet(simple_cache, key, value, timeout, now)
    /\ loc' = [loc EXCEPT ![BillingWorker] =
                  [IdleLoc EXCEPT !.op = "set", !.key = key, !.value = value,
                                  !.timeout = timeout]]
    /\ UNCHANGED <<users, lots, spots, reservations, activities, now, pc, requests>>
    /\ UNCHANGED <<limit, scheduler, ids, cache, changes, export_jobs>>

SimpleCacheGetCall(key) ==
    /\ simple_cache' = SimpleCacheAfterGet(simple_cache, key, now)
    /\ loc' = [loc EXCEPT ![BillingWorker].op = "get",
                          ![BillingWorker].got = key,
                          ![BillingWorker].returned =
                              SimpleCacheGet(simple_cache, key, now)]
    /\ UNCHANGED <<users, lots, spots, reservations, activities, now, pc, requests>>
    /\ UNCHANGED <<limit, scheduler, ids, cache, changes, export_jobs>>

SimpleCacheDeleteCall(key) ==
    /\ simple_cache' = SimpleCacheDelete(simple_cache, {key})
    /\ loc' = [loc EXCEPT ![BillingWorker] = [IdleLoc EXCEPT !.op = "delete"]]
    /\ UNCHANGED <<users, lots, spots, reservations, activities, now, pc, requests>>
    /\ UNCHANGED <<limit, scheduler, ids, cache, changes, export_jobs>>

SimpleCacheClearCall ==
    /\ simple_cache' = SimpleCacheClear(simple_cache)
    /\ loc' = [loc EXCEPT ![BillingWorker] = [IdleLoc EXCEPT !.op = "clear"]]
    /\ UNCHANGED <<users, lots, spots, reservations, activities, now, pc, requests>>
    /\ UNCHANGED <<limit, scheduler, ids, cache, changes, export_jobs>>

\* time.time() advances between two calls.
SimpleCacheElapse(d) ==
    /\ now + d <= MaxSimpleCacheTime
    /\ now' = now + d
    /\ UNCHANGED <<users, lots, spots, reservations, activities, pc, loc, requests>>
    /\ UNCHANGED aux

SimpleCacheInit ==
    /\ InitStore(DefaultPrice)
    /\ limit = 0
    /\ cache = Unbound

SimpleCacheNext ==
    \/ \E key \in SimpleCacheKeys, value \in SimpleCacheValues,
          timeout \in SimpleCacheTimeouts : SimpleCacheSetCall(key, value, timeout)
    \/ \E key \in SimpleCacheKeys : SimpleCacheGetCall(key)
    \/ \E key \in SimpleCacheKeys : SimpleCacheDeleteCall(key)
    \/ SimpleCacheClearCall
    \/ \E d \in SimpleCacheTicks : SimpleCacheElapse(d)

SpecSimpleCache == SimpleCacheInit /\ [][SimpleCacheNext]_vars

\* C38: a get of the key of the most recent set, made with no timeout (0 or
\* None) and with no delete or clear since, returns the value of that set: the
\* value does not expire at a deadline left by an earlier set.
ValueSetWithoutTimeoutStays ==
    LET l == loc[BillingWorker]
    IN  (/\ l.op = "get"
         /\ l.key # NoKey
         /\ l.got = l.key
         /\ l.timeout \in {0, None})
        => l.returned = <<l.value>>

====
